---- MODULE Spec2Model ----
(***************************************************************************)
(* A state-machine model of the lifter of src/ghidrall/src/lifter.py:      *)
(* Lifter.__init__ (global discovery, signature synthesis, population of   *)
(* the function bodies) and Function (recover_locals, build_cfg,           *)
(* lift_function, fetch_input, fetch_store_output, instrument).            *)
(*                                                                         *)
(* Texts the code inspects character by character (varnode symbols, block  *)
(* addresses) are sequences of one-character strings, so that the          *)
(* substring tests, split(), zfill(), int() and hex() of the code are      *)
(* computed.  IR values are objects of a heap (vals), referred to by       *)
(* index, because fixConflictingIntType assigns to the type attribute of   *)
(* the value object itself.                                                *)
(***************************************************************************)
EXTENDS Integers, Sequences, FiniteSets, TLC

\* Bounds of the model.
MaxOps == 3        \* operations translated in one function at most
MaxVarnodes == 3   \* varnode lines of one artifact in the scans of SpecScan

-----------------------------------------------------------------------------
\* Python evaluates an expression once and names its value.  Bind(v, F) is
\* F of the value of v: every statement "x = e" followed by uses of x is
\* written Bind(e, LAMBDA x : ...).
Bind(v, F(_)) == CHOOSE y \in {F(x) : x \in {v}} : TRUE

\* Text helpers (Python str operations used by the code).

Contains(s, sub) ==
    Bind(<<s, sub>>, LAMBDA a :
        \E i \in 1..(Len(a[1]) - Len(a[2]) + 1) : SubSeq(a[1], i, i + Len(a[2]) - 1) = a[2])

StartsWith(s, p) ==
    Bind(<<s, p>>, LAMBDA a : Len(a[1]) >= Len(a[2]) /\ SubSeq(a[1], 1, Len(a[2])) = a[2])

\* s.index(sub): the first position (1-based here) of sub in s.
IndexOf(s, sub) ==
    Bind(<<s, sub>>, LAMBDA a :
        CHOOSE i \in 1..(Len(a[1]) - Len(a[2]) + 1) :
            /\ SubSeq(a[1], i, i + Len(a[2]) - 1) = a[2]
            /\ \A j \in 1..(i - 1) : SubSeq(a[1], j, j + Len(a[2]) - 1) # a[2])

\* s.split(c)[0]: the text before the first c, all of s when it holds none.
SplitFirst(s, c) ==
    Bind(s, LAMBDA t : IF Contains(t, <<c>>) THEN SubSeq(t, 1, IndexOf(t, <<c>>) - 1) ELSE t)

HexDigits == <<"0","1","2","3","4","5","6","7","8","9","a","b","c","d","e","f">>

UpperHexDigits == <<"A","B","C","D","E","F">>

\* int() reads the letters of a base-16 text in either case.
IsDigit(c, base) ==
    \/ \E i \in 1..base : HexDigits[i] = c
    \/ base = 16 /\ \E i \in 1..6 : UpperHexDigits[i] = c

DigitVal(c) ==
    IF \E i \in 1..6 : UpperHexDigits[i] = c
    THEN (CHOOSE i \in 1..6 : UpperHexDigits[i] = c) + 9
    ELSE (CHOOSE i \in 1..16 : HexDigits[i] = c) - 1

\* int(s, base) for a text of digits; Valid says whether int() accepts it.
ValidDigits(s, base) ==
    Bind(s, LAMBDA t : Len(t) > 0 /\ \A i \in 1..Len(t) : IsDigit(t[i], base))

RECURSIVE DigitsValue(_, _)
DigitsValue(s, base) ==
    Bind(s, LAMBDA t :
        IF t = <<>> THEN 0
        ELSE DigitsValue(SubSeq(t, 1, Len(t) - 1), base) * base + DigitVal(t[Len(t)]))

HasHexPrefix(s) == Len(s) >= 2 /\ SubSeq(s, 1, 2) = <<"0","x">>

\* hex(n) without its 0x prefix.
RECURSIVE HexText(_)
HexText(n) ==
    Bind(n, LAMBDA m :
        IF m < 16 THEN <<HexDigits[m + 1]>>
        ELSE HexText(m \div 16) \o <<HexDigits[(m % 16) + 1]>>)

RECURSIVE ZFill(_, _)
ZFill(s, width) ==
    Bind(s, LAMBDA t : IF Len(t) >= width THEN t ELSE ZFill(<<"0">> \o t, width))

\* Function.format_label.
format_label(label) ==
    Bind(label, LAMBDA t :
        <<"0","x">> \o ZFill(IF HasHexPrefix(t) THEN SubSeq(t, 3, Len(t)) ELSE t, 8))

\* format_label(hex(int(true_branch, 16) + 1)) of the CBRANCH case.
OffByOne(true_branch) ==
    Bind(true_branch, LAMBDA t :
        format_label(<<"0","x">> \o HexText(DigitsValue(SubSeq(t, 3, Len(t)), 16) + 1)))

-----------------------------------------------------------------------------
\* The symbols and addresses the inputs are drawn from.

sArg1     == <<"a","r","g","1">>
sArg2     == <<"a","r","g","2">>
sUniqueA  == <<"u","n","i","q","u","e","A">>
sUniqueB  == <<"u","n","i","q","u","e","B">>
sReg10    == <<"r","e","g","i","s","t","e","r","0","x","1","0">>
sReg20    == <<"r","e","g","i","s","t","e","r","0","x","2","0">>
sVar1     == <<"v","a","r","_","1">>
sObjA     == <<"o","b","j","A">>
sObjB     == <<"_","o","b","j","B">>
sFive     == <<"5">>
sZero     == <<"0">>
sHex10    == <<"0","x","1","0">>
sHexUpper == <<"0","x","1","F","U">>
sTrue     == <<"t","r","u","e">>
sArgc     == <<"a","r","g","c">>
sObjArg   == <<"o","b","j","_","a","r","g">>
sUniqueT  == <<"u","n","i","q","u","e","_","t","r","u","e">>
sJunk     == <<"f","c","n",".","m","a","i","n">>
sLocHex   == <<"l","o","c",".","0","x","1","0">>
sOne      == <<"1">>
sThree    == <<"3">>
sHex0102  == <<"0","x","0","1","0","2">>
sHexF304  == <<"0","x","f","3","0","4">>

addr0c    == <<"0","x","0","0","0","0","0","0","0","c">>
addr0f    == <<"0","x","0","0","0","0","0","0","0","f">>
addr10    == <<"0","x","0","0","0","0","0","0","1","0">>
addr14    == <<"0","x","0","0","0","0","0","0","1","4">>

instrumentation_list == {"sym.path_start", "sym.path_goal", "sym.path_nongoal", "sym.imp.rand"}

Varnode(sym, sz) == [symbol |-> sym, size |-> sz]
NoOutput == [symbol |-> <<>>, size |-> 0]

-----------------------------------------------------------------------------
VARIABLES
    decompile_info,   \* the input mapping: function name -> artifact
    function_names,   \* Lifter.function_names (the mapping's key order)
    options,          \* lifting_options
    menu,             \* the operations the artifact's blocks are made of
    pc,               \* where Lifter.__init__ stands
    err,              \* the exception that aborted the pass, "" when none
    global_vars,      \* Lifter.global_vars, in creation order
    functions,        \* functions declared in the module, in creation order
    instrumentation,  \* Lifter.instrumentation: call target -> intrinsic name
    functions_ir,     \* name -> signature, defined for the names done so far
    ret_types,        \* Lifter.ret_types
    sig_i,            \* loop index of create_function_signatures
    fn_i,             \* loop index of populate_functions
    vals,             \* the IR value objects of the function being lifted
    locals,           \* Function.locals: symbol -> width of the slot
    temps,            \* Function.temps: symbol -> value
    entry,            \* instructions of the function's entry block
    block_labels,     \* the keys of Function.ir_blocks, in order
    ir_blocks,        \* label -> instructions of that IR block
    blk_i,            \* loop index of lift_function over the blocks
    branched,         \* lift_function's local of that name
    lhs, rhs,         \* lift_function's locals of those names (0: unbound)
    mem,              \* what the last store to a slot in this block wrote
    nops,             \* operations translated in the current function
    copied,           \* the COPY results the varnodes of this block still hold
    last,             \* the operation translated last, and what it did
    replay            \* the first of two calls of lift_binary, for the second

vars == <<decompile_info, function_names, options, menu, pc, err, global_vars,
          functions, instrumentation, functions_ir, ret_types, sig_i, fn_i,
          vals, locals, temps, entry, block_labels, ir_blocks, blk_i, branched,
          lhs, rhs, mem, nops, copied, last, replay>>

inputVars  == <<decompile_info, function_names, options, menu>>
moduleVars == <<global_vars, functions, instrumentation, functions_ir, ret_types>>
funcVars   == <<vals, locals, temps, entry, block_labels, ir_blocks, blk_i,
                branched, lhs, rhs, mem, nops, copied>>

NoLast ==
    [opname |-> "", op |-> <<>>, f |-> "", label |-> <<>>, n0 |-> 0, nfetch |-> 0,
     l |-> 0, rr |-> 0, wl |-> 0, wr |-> 0, reads |-> <<>>, true_branch |-> <<>>,
     false_branch |-> <<>>, result |-> 0, callee |-> "", out |-> <<>>, err |-> ""]

\* replay.run is 0 in a single call of lift_binary.  In the first of two
\* calls (run 1) script notes the operations the artifact turns out to hold
\* and bodies the functions lifted; the second call (run 2) is made on the
\* same artifact, so it meets script's operations again, and first keeps
\* what the first call produced.
NoReplay == [run |-> 0, script |-> <<>>, k |-> 1, bodies |-> <<>>, first |-> <<>>]

-----------------------------------------------------------------------------
\* Lifter.fish_globals

IsObjLine(symbol) == StartsWith(symbol, <<"_","o","b","j">>) \/ StartsWith(symbol, <<"o","b","j">>)

GlobalNames(gv) == {gv[i].name : i \in 1..Len(gv)}

\* A variant that takes every occurrence for a new symbol.
AlwaysNewGlobal(symbol, gv) == TRUE

IsNewGlobal(symbol, gv) == symbol \notin GlobalNames(gv)

\* Every <symbol> line of every artifact, in the order fish_globals reads them.
RECURSIVE AllVarnodes(_, _)
AllVarnodes(names, info) ==
    IF names = <<>> THEN <<>>
    ELSE info[Head(names)].varnodes \o AllVarnodes(Tail(names), info)

RECURSIVE FishFold(_, _)
FishFold(occs, gv) ==
    Bind(<<occs, gv>>, LAMBDA a :
        IF a[1] = <<>> THEN a[2]
        ELSE LET o == Head(a[1])
             IN  FishFold(Tail(a[1]),
                     IF IsObjLine(o.symbol) /\ IsNewGlobal(o.symbol, a[2])
                     THEN Append(a[2], [name |-> o.symbol, w |-> o.size * 8, init |-> 0])
                     ELSE a[2]))

fish_globals == FishFold(AllVarnodes(function_names, decompile_info), <<>>)

GlobalWidth(symbol) ==
    LET i == CHOOSE i \in 1..Len(global_vars) : global_vars[i].name = symbol
    IN  global_vars[i].w

FishGlobals ==
    /\ pc = "fish_globals"
    /\ global_vars' = fish_globals
    /\ pc' = "signatures"
    /\ UNCHANGED <<inputVars, err, functions, instrumentation, functions_ir,
                   ret_types, sig_i, fn_i, funcVars, last, replay>>

-----------------------------------------------------------------------------
\* Lifter.create_function_signatures, one function of the loop per step.

ReturnWidth(ret) ==
    IF ret.type = "undefined8" THEN 64
    ELSE IF ret.type = "void" THEN 0
    ELSE 8 * ret.size

\* return_types[name]: "void", "undefined8", or the number 8 * size, which is
\* only ever compared with "void"; "int" stands for that number here.
ReturnTypeTag(ret) ==
    IF ret.type = "undefined8" THEN "undefined8"
    ELSE IF ret.type = "void" THEN "void"
    ELSE "int"

\* The args dict: a later var of the same name replaces the type, not the place.
RECURSIVE ArgsDict(_, _)
ArgsDict(xml_args, acc) ==
    Bind(<<xml_args, acc>>, LAMBDA x :
        IF x[1] = <<>> THEN x[2]
        ELSE LET a == Head(x[1])
                 t == [name |-> a.name, w |-> 8 * a.size]
             IN  ArgsDict(Tail(x[1]),
                     IF \E i \in 1..Len(x[2]) : x[2][i].name = a.name
                     THEN [i \in 1..Len(x[2]) |-> IF x[2][i].name = a.name THEN t ELSE x[2][i]]
                     ELSE Append(x[2], t)))

Signature(function) ==
    LET xml == decompile_info[function]
    IN  [name |-> function, ret |-> ReturnWidth(xml.ret), args |-> ArgsDict(xml.args, <<>>)]

\* A variant of the loop's end that stops after the first function.
FirstSignatureOnly == sig_i > 1

SignaturesDone == sig_i > Len(function_names)

CreateSignature ==
    /\ pc = "signatures"
    /\ ~SignaturesDone
    /\ LET function == function_names[sig_i]
       IN  /\ functions' = Append(functions, Signature(function))
           /\ functions_ir' = [n \in DOMAIN functions_ir \cup {function} |->
                                 IF n = function THEN Signature(function) ELSE functions_ir[n]]
           /\ ret_types' = [n \in DOMAIN ret_types \cup {function} |->
                                 IF n = function THEN ReturnTypeTag(decompile_info[function].ret)
                                 ELSE ret_types[n]]
    /\ sig_i' = sig_i + 1
    /\ UNCHANGED <<inputVars, pc, err, global_vars, instrumentation, fn_i, funcVars, last,
                   replay>>

StartPopulate ==
    /\ pc = "signatures"
    /\ SignaturesDone
    /\ pc' = "populate"
    /\ UNCHANGED <<inputVars, err, moduleVars, sig_i, fn_i, funcVars, last, replay>>

-----------------------------------------------------------------------------
\* IR value objects.  w is the width of the object's type attribute (0: void),
\* w0 the width it was created with.  root names the value an object is a
\* copy of (itself, unless it is a load of just what a store wrote); lowroot
\* and lowbits describe a load wider than what the store wrote.

Value(kind, w, name, val, self) ==
    [kind |-> kind, w |-> w, w0 |-> w, name |-> name, val |-> val,
     root |-> self, lowroot |-> 0, lowbits |-> 0]

Instr(op, args, res) == [op |-> op, args |-> args, res |-> res, tgt |-> <<>>, sym |-> <<>>]

Terminators == {"br", "cbranch", "ret", "ret_void"}

is_terminated(code) == \E i \in 1..Len(code) : code[i].op \in Terminators

EmptyMap == [s \in {} |-> 0]

MapPut(m, k, v) == [s \in DOMAIN m \cup {k} |-> IF s = k THEN v ELSE m[s]]

-----------------------------------------------------------------------------
\* Function.__init__: recover_locals and build_cfg.

LocalWidth(local) ==
    IF Contains(local.name, <<"b","V","a","r">>) THEN 1 ELSE local.size * 8

KnownStackOption(stack) == stack \in {"single_struct", "byte_addressable", "no_option"}

RECURSIVE LocalSlots(_, _)
LocalSlots(xml_locals, acc) ==
    Bind(<<xml_locals, acc>>, LAMBDA x :
        IF x[1] = <<>> THEN x[2]
        ELSE LocalSlots(Tail(x[1]), MapPut(x[2], Head(x[1]).name, LocalWidth(Head(x[1])))))

\* The instructions the chosen layout puts in the entry block for the locals.
RECURSIVE LocalAllocs(_, _)
LocalAllocs(xml_locals, stack) ==
    IF xml_locals = <<>> THEN <<>>
    ELSE LET l == Head(xml_locals)
             one == IF stack = "no_option"
                    THEN <<[Instr("alloca", <<>>, 0) EXCEPT !.sym = l.name]>>
                    ELSE IF stack = "single_struct"
                    THEN <<[Instr("gep", <<>>, 0) EXCEPT !.sym = l.name]>>
                    ELSE <<[Instr("gep", <<>>, 0) EXCEPT !.sym = l.name],
                           [Instr("bitcast", <<>>, 0) EXCEPT !.sym = l.name]>>
         IN  one \o LocalAllocs(Tail(xml_locals), stack)

IsRegisterLine(symbol) ==
    Contains(symbol, <<"r","e","g","i","s","t","e","r","0","x">>)

RegisterBits(size) == IF size # 1 THEN size * 8 ELSE size

\* A variant in which the last occurrence decides the width.
LastOccurrenceWins(size, old) == TRUE

ReplacesRegister(size, old) == size > old

\* register_vars, as a list of [name, w] in the order of first occurrence.
RECURSIVE RegisterVars(_, _)
RegisterVars(occs, rv0) ==
    Bind(<<occs, rv0>>, LAMBDA x :
        IF x[1] = <<>> THEN x[2]
        ELSE LET o == Head(x[1])
                 rv == x[2]
                 size == RegisterBits(o.size)
                 known == \E i \in 1..Len(rv) : rv[i].name = o.symbol
             IN  RegisterVars(Tail(x[1]),
                     IF ~IsRegisterLine(o.symbol) THEN rv
                     ELSE IF ~known THEN Append(rv, [name |-> o.symbol, w |-> size])
                     ELSE [i \in 1..Len(rv) |->
                              IF rv[i].name = o.symbol /\ ReplacesRegister(size, rv[i].w)
                              THEN [name |-> o.symbol, w |-> size] ELSE rv[i]]))

RECURSIVE RegisterSlots(_, _)
RegisterSlots(rv, acc) ==
    Bind(<<rv, acc>>, LAMBDA x :
        IF x[1] = <<>> THEN x[2]
        ELSE RegisterSlots(Tail(x[1]), MapPut(x[2], Head(x[1]).name, Head(x[1]).w)))

RegisterAllocs(rv) ==
    [i \in 1..Len(rv) |-> [Instr("alloca", <<>>, 0) EXCEPT !.sym = rv[i].name]]

\* recover_locals: the local_vars mapping and the entry block's instructions.
recover_locals(xml, stack) ==
    Bind(RegisterVars(xml.varnodes, <<>>), LAMBDA rv :
    LET lv == IF KnownStackOption(stack) THEN LocalSlots(xml.locals, EmptyMap) ELSE EmptyMap
        struct == IF stack \in {"single_struct", "byte_addressable"}
                  THEN <<Instr("alloca", <<>>, 0)>> ELSE <<>>
        la == IF KnownStackOption(stack) THEN LocalAllocs(xml.locals, stack) ELSE <<>>
    IN  [locals |-> RegisterSlots(rv, lv), entry |-> struct \o la \o RegisterAllocs(rv)])

\* build_cfg: the labels in artifact order; the entry block branches to the first.
BlockLabels(xml) == [i \in 1..Len(xml.blocks) |-> format_label(xml.blocks[i].address)]

ArgValues(sig) ==
    [i \in 1..Len(sig.args) |-> Value("arg", sig.args[i].w, sig.args[i].name, 0, i)]

PopulateDone == fn_i > Len(function_names)

\* A variant in which a Function starts with the table of the one before.
KeptTemps == temps

\* self.temps = {}
NewTemps == EmptyMap

NewFunction ==
    /\ pc = "populate"
    /\ ~PopulateDone
    /\ \E function \in {function_names[fn_i]} :
       \E rl \in {recover_locals(decompile_info[function], options.stack)} :
       \E labels \in {BlockLabels(decompile_info[function])} :
           /\ vals' = ArgValues(functions_ir[function])
           /\ locals' = rl.locals
           /\ entry' = Append(rl.entry, [Instr("br", <<>>, 0) EXCEPT !.tgt = <<labels[1]>>])
           /\ block_labels' = labels
           /\ ir_blocks' = [l \in {labels[i] : i \in 1..Len(labels)} |-> <<>>]
    /\ temps' = NewTemps
    /\ mem' = EmptyMap
    /\ blk_i' = 1
    /\ branched' = FALSE
    /\ lhs' = 0
    /\ rhs' = 0
    /\ nops' = 0
    /\ copied' = EmptyMap
    /\ pc' = "lift"
    /\ last' = NoLast
    /\ UNCHANGED <<inputVars, err, moduleVars, sig_i, fn_i, replay>>

-----------------------------------------------------------------------------
\* The translation of one operation threads a record through the calls it
\* makes: the value heap, the instructions of the block being built, the
\* temporaries, the slots' contents, the value the last call returned (r), the
\* exception raised (err) and the reads made (reads).

Raise(st, e) == IF st.err = "" THEN [st EXCEPT !.err = e] ELSE st

NewValue(st, kind, w, name, val) ==
    LET id == Len(st.vals) + 1
    IN  [st EXCEPT !.vals = Append(@, Value(kind, w, name, val, id)), !.r = id]

Emit(st, ins) == [st EXCEPT !.code = Append(@, ins)]

\* ir.Constant(ir.IntType(w), val)
Constant(st, w, val) == NewValue(st, "const", w, <<>>, val)

\* builder.load of a slot of width w.  The loaded object stands for the value
\* the last store of this block wrote when the store was as wide as the load;
\* when the store was narrower its low bits do (little-endian data layout).
Load(st, symbol, w) ==
    LET id == Len(st.vals) + 1
        known == symbol \in DOMAIN st.mem
        m == st.mem[symbol]
        v == [Value("load", w, symbol, 0, id) EXCEPT
                !.root = IF known /\ m.sw = w THEN m.root ELSE id,
                !.lowroot = IF known /\ m.sw < w THEN m.root ELSE 0,
                !.lowbits = IF known /\ m.sw < w THEN m.sw ELSE 0]
    IN  [st EXCEPT !.vals = Append(@, v), !.r = id,
                   !.code = Append(@, [Instr("load", <<>>, id) EXCEPT !.sym = symbol])]

\* builder.trunc(val, IntType(w)): the value itself when it has that type.
Trunc(st, val, w) ==
    IF st.vals[val].w = w THEN [st EXCEPT !.r = val]
    ELSE LET id == Len(st.vals) + 1
             x == st.vals[val]
             v == [Value("trunc", w, <<>>, 0, id) EXCEPT
                     !.root = IF x.w = x.w0 /\ x.lowbits = w THEN x.lowroot ELSE id]
         IN  [st EXCEPT !.vals = Append(@, v), !.r = id,
                        !.code = Append(@, Instr("trunc", <<val>>, id))]

FetchSymbol(arg) ==
    IF Contains(arg.symbol, <<"v","a","r">>) THEN SplitFirst(arg.symbol, ".") ELSE arg.symbol

\* A variant that asks for 8 bits of a 1-byte varnode.
EightBitsPerByte(arg) ==
    IF Contains(FetchSymbol(arg), <<"b","V","a","r">>) THEN 1 ELSE arg.size * 8

FetchSize(arg) ==
    IF Contains(FetchSymbol(arg), <<"b","V","a","r">>) THEN 1
    ELSE IF arg.size # 1 THEN arg.size * 8 ELSE arg.size

\* A variant that finds no parameter.
NoParameter(st, symbol) == 0

\* The parameter whose name is symbol, 0 when there is none.  The parameters
\* are the first objects of the heap.
ParameterNamed(st, symbol) ==
    LET hits == {i \in 1..Len(st.vals) : st.vals[i].kind = "arg" /\ st.vals[i].name = symbol}
    IN  IF hits = {} THEN 0 ELSE CHOOSE i \in hits : \A j \in hits : i <= j

ReadsTruncated(w, size) == w # size /\ w # 1

\* int(text) for a text without blanks and underscores: an optional sign, then
\* digits.  ok is FALSE when int() raises ValueError.
ParseDecimal(text) ==
    Bind(text, LAMBDA t :
        LET signed == Len(t) > 0 /\ t[1] \in {"+", "-"}
            digits == IF signed THEN SubSeq(t, 2, Len(t)) ELSE t
        IN  IF ~ValidDigits(digits, 10) THEN [ok |-> FALSE, val |-> 0]
            ELSE [ok |-> TRUE,
                  val |-> IF signed /\ t[1] = "-" THEN 0 - DigitsValue(digits, 10)
                          ELSE DigitsValue(digits, 10)])

\* int(text, 16) for a text that begins with 0x.
ParseHex(text) ==
    Bind(SubSeq(text, 3, Len(text)), LAMBDA t :
        IF ValidDigits(t, 16) THEN [ok |-> TRUE, val |-> DigitsValue(t, 16)]
        ELSE [ok |-> FALSE, val |-> 0])

\* The try block of the constant branch of fetch_input: the text before the
\* first U, read from its first 0x on in base 16 when it holds one.
ParseConstant(symbol0) ==
    Bind(IF Contains(symbol0, <<"U">>) THEN SplitFirst(symbol0, "U") ELSE symbol0, LAMBDA symbol :
        IF Contains(symbol, <<"0","x">>)
        THEN ParseHex(SubSeq(symbol, IndexOf(symbol, <<"0","x">>), Len(symbol)))
        ELSE ParseDecimal(symbol))

FetchResolve(st, arg, global_widths) ==
    Bind(<<FetchSymbol(arg), FetchSize(arg)>>, LAMBDA a :
    LET symbol == a[1]
        size == a[2]
    IN  IF Contains(symbol, <<"a","r","g","v">>) \/ Contains(symbol, <<"a","r","g","c">>)
        THEN Raise(st, "Exception: argc and argv weird behaviour")
        ELSE IF Contains(symbol, <<"a","r","g">>) /\ ParameterNamed(st, symbol) # 0
        THEN [st EXCEPT !.r = ParameterNamed(st, symbol)]
        ELSE IF symbol \in DOMAIN global_widths
        THEN Load(st, symbol, global_widths[symbol])
        ELSE IF symbol \in DOMAIN locals
        THEN Bind(Load(st, symbol, locals[symbol]), LAMBDA final : Trunc(final, final.r, size))
        ELSE IF symbol \in DOMAIN st.temps
        THEN LET t == st.temps[symbol]
             IN  IF st.vals[t].w = 0 THEN Constant(st, 1, 0)
                 ELSE IF ReadsTruncated(st.vals[t].w, size) THEN Trunc(st, t, size)
                 ELSE [st EXCEPT !.r = t]
        ELSE IF Contains(symbol, <<"f","a","l","s","e">>) THEN Constant(st, 1, 0)
        ELSE IF Contains(symbol, <<"t","r","u","e">>) THEN Constant(st, 1, 1)
        ELSE Bind(ParseConstant(symbol), LAMBDA parsed :
                 IF parsed.ok THEN Constant(st, size, parsed.val) ELSE Constant(st, size, 0)))

GlobalWidths == [s \in GlobalNames(global_vars) |-> GlobalWidth(s)]

\* Function.fetch_input.  The read is noted in st.reads, with the width asked
\* for (w), the width of the value returned (rw), the entry of the temporaries table under the name and its width
\* when the read was made (tval, 0 when none, and tw), the COPY result the
\* varnode holds (cval, 0 when none) and the size it was copied with.
fetch_input(st0, arg) ==
    Bind(st0, LAMBDA st :
    IF st.err # "" THEN st
    ELSE Bind(FetchResolve(st, arg, st.global_widths), LAMBDA out :
         Bind(FetchSymbol(arg), LAMBDA symbol :
             IF out.err # "" THEN out
             ELSE [out EXCEPT !.reads = Append(@,
                      [symbol |-> symbol, size |-> arg.size, val |-> out.r,
                       w |-> FetchSize(arg), rw |-> out.vals[out.r].w,
                       tval |-> IF symbol \in DOMAIN st.temps THEN st.temps[symbol] ELSE 0,
                       tw |-> IF symbol \in DOMAIN st.temps THEN st.vals[st.temps[symbol]].w ELSE 0,
                       cval |-> IF symbol \in DOMAIN copied THEN copied[symbol].val ELSE 0,
                       csize |-> IF symbol \in DOMAIN copied THEN copied[symbol].size ELSE 0])])))

\* A variant that stores nothing anywhere.
StoreNothing(st, arg, result, global_widths) == st

\* Function.fetch_store_output
StoreResolve(st, arg, result, global_widths) ==
    Bind(FetchSymbol(arg), LAMBDA symbol :
    LET w == st.vals[result].w
        wrote == [root |-> st.vals[result].root, sw |-> w]
    IN  IF symbol \in DOMAIN locals
        THEN IF w # 0
             THEN LET cast == IF locals[symbol] # w
                              THEN Emit(st, [Instr("bitcast", <<>>, 0) EXCEPT !.sym = symbol])
                              ELSE st
                  IN  [Emit(cast, [Instr("store", <<result>>, 0) EXCEPT !.sym = symbol])
                          EXCEPT !.mem = MapPut(@, symbol, wrote)]
             ELSE st
        ELSE IF symbol \in DOMAIN global_widths
        THEN IF global_widths[symbol] # w
             THEN Raise(st, "TypeError: cannot store: mismatching types")
             ELSE [Emit(st, [Instr("store", <<result>>, 0) EXCEPT !.sym = symbol])
                      EXCEPT !.mem = MapPut(@, symbol, wrote)]
        ELSE IF Contains(symbol, <<"r","e","g","i","s","t","e","r">>)
        THEN [st EXCEPT !.temps = MapPut(@, symbol, result)]
        ELSE IF Contains(symbol, <<"u","n","i","q","u","e">>)
        THEN [st EXCEPT !.temps = MapPut(@, symbol, result)]
        ELSE st)

fetch_store_output(st0, arg, result) ==
    Bind(st0, LAMBDA st :
        IF st.err # "" THEN st ELSE StoreResolve(st, arg, result, st.global_widths))

\* Function.fixConflictingIntType, on the heap: the type attribute of one of
\* the two objects is assigned.
\* A variant that retypes the wider operand to the narrower width.
NarrowToSmaller(v, l, r) ==
    IF v[l].w > v[r].w THEN [v EXCEPT ![l].w = v[r].w]
    ELSE [v EXCEPT ![r].w = v[l].w]

fixConflictingIntType(v, l, r) ==
    IF v[l].w > v[r].w THEN [v EXCEPT ![r].w = v[l].w]
    ELSE [v EXCEPT ![l].w = v[r].w]

TypesDiffer(v, l, r) == v[l].w # v[r].w

Reconcile(st0, l, r) ==
    Bind(st0, LAMBDA st :
        IF st.err # "" THEN st
        ELSE IF TypesDiffer(st.vals, l, r)
        THEN [st EXCEPT !.vals = fixConflictingIntType(@, l, r)]
        ELSE st)

\* An IRBuilder binary operation: llvmlite refuses operands of unlike types.
Binop(st0, op, l, r) ==
    Bind(st0, LAMBDA st :
        IF st.err # "" THEN st
        ELSE IF st.vals[l].w # st.vals[r].w
        THEN Raise(st, "ValueError: Operands must be the same type")
        ELSE Bind(NewValue(st, "inst", st.vals[l].w, <<>>, 0), LAMBDA n :
                 Emit(n, Instr(op, <<l, r>>, n.r))))

\* IRBuilder.icmp_signed / icmp_unsigned: a 1-bit result, no check of the types.
Icmp(st0, op, l, r) ==
    Bind(st0, LAMBDA st :
        IF st.err # "" THEN st
        ELSE Bind(NewValue(st, "inst", 1, <<>>, 0), LAMBDA n :
                 Emit(n, Instr(op, <<l, r>>, n.r))))

\* A one-operand instruction (zext, sext, neg, not) with a result of width w.
Unop(st0, op, x, w) ==
    Bind(st0, LAMBDA st :
        IF st.err # "" THEN st
        ELSE Bind(NewValue(st, "inst", w, <<>>, 0), LAMBDA n :
                 Emit(n, Instr(op, <<x>>, n.r))))

\* IRBuilder._set_terminator asserts that the block has no terminator yet.
Terminate(st0, ins) ==
    Bind(st0, LAMBDA st :
        IF st.err # "" THEN st
        ELSE IF is_terminated(st.code) THEN Raise(st, "AssertionError")
        ELSE Emit(st, ins))

-----------------------------------------------------------------------------
\* Function.instrument

IntrinsicName(call_target) ==
    IF call_target = "sym.imp.rand" THEN "nd" ELSE "verifier.error"

IntrinsicRet(call_target) == IF call_target = "sym.imp.rand" THEN 32 ELSE 0

FunctionNames(fs) == {fs[i].name : i \in 1..Len(fs)}

\* self.instrumentation is keyed by the call target.
InstrumentationKey(call_target) == call_target

\* ir.Function(module, func_type, name): the module's scope refuses a name twice.
DeclareFunction(st, name, ret) ==
    IF name \in FunctionNames(st.functions)
    THEN Raise(st, "DuplicatedNameError")
    ELSE [st EXCEPT !.functions = Append(@, [name |-> name, ret |-> ret, args |-> <<>>])]

\* r is 1 when a function is returned (its name in callee), 0 for None.
instrument(st0, call_target) ==
    Bind(st0, LAMBDA st :
    IF InstrumentationKey(call_target) \in DOMAIN st.instrumentation
    THEN [st EXCEPT !.r = 1, !.callee = st.instrumentation[InstrumentationKey(call_target)]]
    ELSE IF call_target = "sym.path_start" THEN [st EXCEPT !.r = 0]
    ELSE IF call_target \in {"sym.path_goal", "sym.path_nongoal", "sym.imp.rand"}
    THEN Bind(DeclareFunction(st, IntrinsicName(call_target), IntrinsicRet(call_target)), LAMBDA d :
             IF d.err # "" THEN d
             ELSE [d EXCEPT !.r = 1, !.callee = IntrinsicName(call_target),
                            !.instrumentation =
                                MapPut(@, InstrumentationKey(call_target), IntrinsicName(call_target))])
    ELSE Raise(st, "Exception: Not excepted instrumentation function"))

FunctionNamed(fs, name) == fs[CHOOSE i \in 1..Len(fs) : fs[i].name = name]

\* builder.call(func, args): CallInstr checks each declared parameter's type.
Call(st0, name, args) ==
    Bind(st0, LAMBDA st :
    IF st.err # "" THEN st
    ELSE LET f == FunctionNamed(st.functions, name)
         IN  IF Len(args) < Len(f.args) THEN Raise(st, "IndexError")
             ELSE IF \E i \in 1..Len(f.args) : st.vals[args[i]].w # f.args[i].w
             THEN Raise(st, "TypeError: Type of arg mismatch")
             ELSE Bind(NewValue(st, "call", f.ret, <<>>, 0), LAMBDA n :
                      Emit(n, [Instr("call", args, n.r) EXCEPT !.sym = name])))

-----------------------------------------------------------------------------
\* Function.lift_function: the translation of one operation.

ReconciledOps ==
    {"INT_EQUAL", "INT_NOTEQUAL", "INT_SLESS", "INT_SLESSEQUAL", "INT_LESS", "INT_LESSEQUAL",
     "INT_ADD", "INT_SUB", "INT_AND", "INT_LEFT", "INT_RIGHT", "INT_SRIGHT",
     "INT_MULT", "INT_DIV", "INT_SDIV", "INT_REM", "INT_SREM"}

ComparisonOps ==
    {"INT_EQUAL", "INT_NOTEQUAL", "INT_SLESS", "INT_SLESSEQUAL", "INT_LESS", "INT_LESSEQUAL"}

UnreconciledOps == {"BOOL_XOR", "BOOL_AND", "BOOL_OR", "PTRSUB"}

StoresResult(opname) == opname # "INT_LESSEQUAL"

IrOp(opname) ==
    CASE opname = "INT_EQUAL"      -> "icmp =="
      [] opname = "INT_NOTEQUAL"   -> "icmp !="
      [] opname = "INT_SLESS"      -> "icmp s<"
      [] opname = "INT_SLESSEQUAL" -> "icmp s<="
      [] opname = "INT_LESS"       -> "icmp u<"
      [] opname = "INT_LESSEQUAL"  -> "icmp u<="
      [] opname = "INT_ADD"        -> "add"
      [] opname = "INT_SUB"        -> "sub"
      [] opname = "INT_AND"        -> "and"
      [] opname = "INT_OR"         -> "or"
      [] opname = "INT_XOR"        -> "xor"
      [] opname = "INT_LEFT"       -> "shl"
      [] opname = "INT_RIGHT"      -> "lshr"
      [] opname = "INT_SRIGHT"     -> "ashr"
      [] opname = "INT_MULT"       -> "mul"
      [] opname = "INT_DIV"        -> "udiv"
      [] opname = "INT_SDIV"       -> "sdiv"
      [] opname = "INT_REM"        -> "urem"
      [] opname = "INT_SREM"       -> "srem"
      [] opname = "BOOL_XOR"       -> "xor"
      [] opname = "BOOL_AND"       -> "and"
      [] opname = "BOOL_OR"        -> "or"
      [] opname = "PTRSUB"         -> "add"
      [] OTHER                     -> "?"

\* Resolve inputs[0] and inputs[1]; l and rr name the two objects, wl and wr
\* their widths as resolved, nfetch the block's length after the resolution.
Fetch2(st, op) ==
    Bind(fetch_input(st, op.inputs[1]), LAMBDA a :
    Bind(fetch_input(a, op.inputs[2]), LAMBDA b :
        IF b.err # "" THEN b
        ELSE [b EXCEPT !.l = a.r, !.rr = b.r, !.wl = b.vals[a.r].w, !.wr = b.vals[b.r].w,
                       !.nfetch = Len(b.code)]))

Store(st0, op) ==
    Bind(st0, LAMBDA st :
        IF st.err # "" THEN st
        ELSE [fetch_store_output(st, op.output, st.r) EXCEPT
                 !.result = st.r, !.wrote = FetchSymbol(op.output)])

LiftReconciled(st, op) ==
    Bind(Fetch2(st, op), LAMBDA f :
    Bind(IF f.err # "" THEN f
         ELSE [Reconcile(f, f.l, f.rr) EXCEPT !.lhs = f.l, !.rhs = f.rr], LAMBDA g :
    Bind(IF op.opname \in ComparisonOps THEN Icmp(g, IrOp(op.opname), g.l, g.rr)
         ELSE Binop(g, IrOp(op.opname), g.l, g.rr), LAMBDA h :
        IF StoresResult(op.opname) THEN Store(h, op)
        ELSE IF h.err # "" THEN h ELSE [h EXCEPT !.result = h.r])))

LiftUnreconciled(st, op) ==
    Bind(Fetch2(st, op), LAMBDA f :
    Bind(IF f.err # "" THEN f ELSE [f EXCEPT !.lhs = f.l, !.rhs = f.rr], LAMBDA g :
        Store(Binop(g, IrOp(op.opname), g.l, g.rr), op)))

LiftXor(st, op) ==
    Bind(Fetch2(st, op), LAMBDA f : Store(Binop(f, "xor", f.l, f.rr), op))

\* INT_OR tests, and retypes, the objects lhs and rhs still name.
LiftOr(st, op) ==
    Bind(Fetch2(st, op), LAMBDA f :
    Bind(IF f.err # "" THEN f
         ELSE IF f.lhs = 0 \/ f.rhs = 0 THEN Raise(f, "UnboundLocalError")
         ELSE Reconcile(f, f.lhs, f.rhs), LAMBDA g :
        Store(Binop(g, "or", g.l, g.rr), op)))

LiftCopy(st, op) == Store(fetch_input(st, op.inputs[1]), op)

\* builder.zext / builder.sext: the value itself when it has the target type.
Cast(st0, irop, x, w) ==
    Bind(st0, LAMBDA st :
        IF st.err # "" THEN st
        ELSE IF st.vals[x].w = w THEN [st EXCEPT !.r = x]
        ELSE Unop(st, irop, x, w))

LiftExt(st, op) ==
    Bind(fetch_input(st, op.inputs[1]), LAMBDA f :
    Bind(IF f.err # "" THEN f ELSE [f EXCEPT !.lhs = f.r], LAMBDA g :
        Store(Cast(g, IF op.opname = "INT_ZEXT" THEN "zext" ELSE "sext", g.r, 8 * op.output.size), op)))

Lift2Comp(st, op) ==
    Bind(fetch_input(st, op.inputs[1]), LAMBDA f :
        Store(IF f.err # "" THEN f ELSE Unop(f, "neg", f.r, f.vals[f.r].w), op))

LiftBoolNegate(st, op) ==
    Bind(fetch_input(st, op.inputs[1]), LAMBDA f :
    Bind(IF f.err # "" THEN f ELSE [f EXCEPT !.lhs = f.r], LAMBDA g :
        Store(IF g.err # "" THEN g ELSE Unop(g, "not", g.r, g.vals[g.r].w), op)))

\* A variant that takes the size of the most significant input.
MostSigSize(op) == 8 * op.inputs[1].size

\* least_sig_size of the PIECE case.
LeastSigSize(op) == 8 * op.inputs[2].size

LiftPiece(st, op) ==
    LET output_size == 8 * op.output.size
        least_sig_size == LeastSigSize(op)
    IN  Bind(fetch_input(st, op.inputs[1]), LAMBDA m :
        Bind(fetch_input(m, op.inputs[2]), LAMBDA l :
        Bind(Cast(l, "zext", l.r, output_size), LAMBDA zl :
        Bind(Cast(zl, "zext", m.r, output_size), LAMBDA zm :
        Bind(IF zm.err # "" THEN zm ELSE Constant(zm, output_size, least_sig_size), LAMBDA c :
        Bind(Binop(c, "shl", zm.r, c.r), LAMBDA sh :
            Store(Binop(sh, "or", zl.r, sh.r), op)))))))

\* A variant that takes every offset for zero.
AnyOffset(symbol) == TRUE

\* inputs[1].find("symbol").text == "0"
IsZeroOffset(symbol) == symbol = <<"0">>

LiftSubpiece(st, op) ==
    Bind(fetch_input(st, op.inputs[1]), LAMBDA a :
    Bind(fetch_input(a, op.inputs[2]), LAMBDA o :
        IF o.err # "" THEN o
        ELSE IF IsZeroOffset(op.inputs[2].symbol)
        THEN Store(Trunc(o, a.r, op.inputs[2].size * 8), op)
        ELSE Raise(o, "Exception: Unexpected subpiece operation")))

LiftPtrAdd(st, op) ==
    Bind(fetch_input(st, op.inputs[1]), LAMBDA a :
    Bind(fetch_input(a, op.inputs[2]), LAMBDA b :
    Bind(fetch_input(b, op.inputs[3]), LAMBDA c :
    Bind(Binop(c, "mul", b.r, c.r), LAMBDA m :
        Store(Binop(m, "add", a.r, m.r), op)))))

-----------------------------------------------------------------------------
\* Control flow, calls and returns.

Jump(op, targets) == [Instr(op, <<>>, 0) EXCEPT !.tgt = targets]

LiftBranch(st, op, xml_block) ==
    IF Len(xml_block.out) = 0 THEN Raise(st, "IndexError")
    ELSE Bind(<<format_label(op.inputs[1].symbol), format_label(xml_block.out[1])>>, LAMBDA a :
         LET target == a[1]
             out_target == a[2]
             final == IF target # out_target THEN out_target ELSE target
         IN  IF final \notin DOMAIN ir_blocks THEN Raise(st, "KeyError")
             ELSE Bind(Terminate(st, Jump("br", <<final>>)), LAMBDA t :
                      IF t.err # "" THEN t ELSE [t EXCEPT !.branched = TRUE]))

\* "true_branch not in branches": branches holds the branch_target elements,
\* not their texts, and a text never equals an element.
TextInElements(text, branches) == FALSE

\* The loop over the branches of the CBRANCH case; <<>> stands for None.
RECURSIVE MatchBranches(_, _, _, _)
MatchBranches(branches, true_branch, off_by_1, false_branch) ==
    Bind(<<branches, true_branch, false_branch>>, LAMBDA a :
        IF a[1] = <<>> THEN [t |-> a[2], f |-> a[3]]
        ELSE LET text == Head(a[1])
             IN  IF text = a[2]
                 THEN MatchBranches(Tail(a[1]), a[2], off_by_1, a[3])
                 ELSE IF text = off_by_1
                 THEN MatchBranches(Tail(a[1]), text, off_by_1, a[3])
                 ELSE MatchBranches(Tail(a[1]), a[2], off_by_1, text))

\* The (true, false) pair the CBRANCH case settles on; needs two out-edges
\* on the positional path.
ChooseBranches(true_branch, branches) ==
    IF ~TextInElements(true_branch, branches) \/ ~TextInElements(OffByOne(true_branch), branches)
    THEN [t |-> branches[1], f |-> branches[2]]
    ELSE MatchBranches(branches, true_branch, OffByOne(true_branch), <<>>)

\* builder.cbranch(cond, truebr, falsebr) is called with (conditional,
\* ir_blocks[false_branch], ir_blocks[true_branch]); tgt keeps that order.
\* A variant with the true block first.
TrueThenFalse(chosen) == <<chosen.t, chosen.f>>

CBranchTargets(chosen) == <<chosen.f, chosen.t>>

LiftCBranch(st, op, xml_block) ==
    Bind(format_label(op.inputs[1].symbol), LAMBDA true_branch :
    Bind(fetch_input(st, op.inputs[2]), LAMBDA c :
    LET branches == xml_block.out
    IN  IF c.err # "" THEN c
        ELSE IF ~ValidDigits(SubSeq(true_branch, 3, Len(true_branch)), 16)
        THEN Raise(c, "ValueError")
        ELSE IF Len(branches) < 2 THEN Raise(c, "IndexError")
        ELSE Bind(ChooseBranches(true_branch, branches), LAMBDA chosen :
                 IF chosen.f = <<>>
                 THEN Raise(c, "Exception: No block match in conditional branch")
                 ELSE IF chosen.f \notin DOMAIN ir_blocks \/ chosen.t \notin DOMAIN ir_blocks
                 THEN Raise(c, "KeyError")
                 ELSE Bind(Terminate(c, [Jump("cbranch", CBranchTargets(chosen))
                                            EXCEPT !.args = <<c.r>>]), LAMBDA t :
                          IF t.err # "" THEN t
                          ELSE [t EXCEPT !.branched = TRUE, !.true_branch = chosen.t,
                                         !.false_branch = chosen.f]))))

\* builder.goto_block(lhs) only makes a context manager that is never entered.
LiftBranchInd(st, op) ==
    Bind(fetch_input(st, op.inputs[1]), LAMBDA f :
        IF f.err # "" THEN f ELSE [f EXCEPT !.lhs = f.r])

\* A variant that takes every function for a void one.
AlwaysVoid(return_type) == TRUE

\* self.return_type == "void"
ReturnsVoid(return_type) == return_type = "void"

LiftReturn(st, op, return_type) ==
    IF ReturnsVoid(return_type)
    THEN Bind(Terminate(st, Jump("ret_void", <<>>)), LAMBDA t :
             IF t.err # "" THEN t ELSE [t EXCEPT !.branched = TRUE])
    ELSE IF Len(op.inputs) < 2 THEN Raise(st, "IndexError")
    ELSE Bind(fetch_input(st, op.inputs[2]), LAMBDA f :
         Bind(IF f.err # "" THEN f ELSE [f EXCEPT !.lhs = f.r], LAMBDA g :
         Bind(IF g.err # "" THEN g ELSE Terminate(g, Instr("ret", <<g.r>>, 0)), LAMBDA t :
             IF t.err # "" THEN t ELSE [t EXCEPT !.branched = TRUE])))

RECURSIVE FetchArgs(_, _)
FetchArgs(st0, inputs) ==
    Bind(st0, LAMBDA st :
        IF inputs = <<>> \/ st.err # "" THEN st
        ELSE Bind(fetch_input(st, Head(inputs)), LAMBDA f :
                 FetchArgs(IF f.err # "" THEN f ELSE [f EXCEPT !.argv = Append(@, f.r)],
                           Tail(inputs))))

StoreCall(st0, op) ==
    Bind(st0, LAMBDA st : IF st.err # "" \/ op.output = NoOutput THEN st ELSE Store(st, op))

\* The CALL case; op.call_target is inputs[0]'s symbol, op.inputs the rest.
LiftCall(st, op) ==
    Bind(FetchArgs([st EXCEPT !.argv = <<>>], op.inputs), LAMBDA a :
        IF a.err # "" THEN a
        ELSE IF op.call_target \in instrumentation_list
        THEN Bind(instrument(a, op.call_target), LAMBDA i :
                 IF i.err # "" \/ i.r = 0 THEN i
                 ELSE StoreCall(Call(i, i.callee, <<>>), op))
        ELSE IF op.call_target \notin DOMAIN functions_ir THEN Raise(a, "KeyError")
        ELSE IF Len(functions_ir[op.call_target].args) = 0
        THEN StoreCall(Call([a EXCEPT !.callee = op.call_target], op.call_target, <<>>), op)
        ELSE StoreCall(Call([a EXCEPT !.callee = op.call_target], op.call_target, a.argv), op))

LiftCallInd(st, op) ==
    Bind(IF op.call_target \notin FunctionNames(st.functions)
         THEN DeclareFunction(st, op.call_target, 0) ELSE st, LAMBDA d :
        Call([d EXCEPT !.callee = op.call_target], op.call_target, <<>>))

\* The opcodes lift_function has a case for.
ImplementedOps ==
    {"COPY", "CAST", "LOAD", "STORE", "BRANCH", "CBRANCH", "BRANCHIND", "CALL", "CALLIND",
     "RETURN", "INT_ZEXT", "INT_SEXT", "INT_2COMP", "INT_XOR", "INT_OR", "BOOL_NEGATE",
     "PIECE", "SUBPIECE", "PTRADD"} \cup ReconciledOps \cup UnreconciledOps

\* A variant that passes over an opcode without a case, as LOAD and STORE are.
SkipOperation(st, op) == st

\* The else of the opcode chain.
NotExpected(st, op) == Raise(st, "Exception: Not expected: " \o op.opname)

lift_operation(st, op, xml_block, return_type) ==
    CASE op.opname \in {"COPY", "CAST"}   -> LiftCopy(st, op)
      [] op.opname \in {"LOAD", "STORE"}  -> st
      [] op.opname = "BRANCH"             -> LiftBranch(st, op, xml_block)
      [] op.opname = "CBRANCH"            -> LiftCBranch(st, op, xml_block)
      [] op.opname = "BRANCHIND"          -> LiftBranchInd(st, op)
      [] op.opname = "CALL"               -> LiftCall(st, op)
      [] op.opname = "CALLIND"            -> LiftCallInd(st, op)
      [] op.opname = "RETURN"             -> LiftReturn(st, op, return_type)
      [] op.opname \in ReconciledOps      -> LiftReconciled(st, op)
      [] op.opname \in {"INT_ZEXT", "INT_SEXT"} -> LiftExt(st, op)
      [] op.opname = "INT_2COMP"          -> Lift2Comp(st, op)
      [] op.opname = "INT_XOR"            -> LiftXor(st, op)
      [] op.opname = "INT_OR"             -> LiftOr(st, op)
      [] op.opname = "BOOL_NEGATE"        -> LiftBoolNegate(st, op)
      [] op.opname \in UnreconciledOps    -> LiftUnreconciled(st, op)
      [] op.opname = "PIECE"              -> LiftPiece(st, op)
      [] op.opname = "SUBPIECE"           -> LiftSubpiece(st, op)
      [] op.opname = "PTRADD"             -> LiftPtrAdd(st, op)
      [] OTHER                            -> NotExpected(st, op)

-----------------------------------------------------------------------------
\* Lifter.populate_functions and Function.lift_function as steps.

CurFunction == function_names[fn_i]
CurXmlBlock == decompile_info[CurFunction].blocks[blk_i]
CurLabel    == block_labels[blk_i]

\* An operation belongs to the artifact only if the scans of fish_globals and
\* recover_locals, which read the whole artifact, have seen its varnodes.
Scanned(vn, xml) ==
    (IsObjLine(vn.symbol) \/ IsRegisterLine(vn.symbol))
        => \E i \in 1..Len(xml.varnodes) : xml.varnodes[i] = vn

InArtifact(op, xml) ==
    /\ \A i \in 1..Len(op.inputs) : Scanned(op.inputs[i], xml)
    /\ op.output # NoOutput => Scanned(op.output, xml)

StartRecord ==
    [vals |-> vals, code |-> ir_blocks[CurLabel], temps |-> temps, mem |-> mem,
     r |-> 0, err |-> "", reads |-> <<>>, branched |-> branched, lhs |-> lhs, rhs |-> rhs,
     instrumentation |-> instrumentation, functions |-> functions,
     global_widths |-> GlobalWidths, l |-> 0, rr |-> 0, wl |-> 0, wr |-> 0, nfetch |-> 0, true_branch |-> <<>>,
     false_branch |-> <<>>, result |-> 0, callee |-> "", argv |-> <<>>, wrote |-> <<>>]

\* The COPY results held after an operation: a COPY into a temporary, register
\* or local is noted, any other write to a varnode drops what it held.
IsCopyTarget(symbol) ==
    \/ symbol \in DOMAIN locals
    \/ Contains(symbol, <<"r","e","g","i","s","t","e","r">>)
    \/ Contains(symbol, <<"u","n","i","q","u","e">>)

CopiedAfter(x, op) ==
    IF x.err # "" \/ x.wrote = <<>> THEN copied
    ELSE IF op.opname = "COPY" /\ IsCopyTarget(x.wrote) /\ op.output.size = op.inputs[1].size
    THEN MapPut(copied, x.wrote, [val |-> x.result, size |-> op.output.size])
    ELSE [s \in DOMAIN copied \ {x.wrote} |-> copied[s]]

\* The second call meets the operations the first call met, in their order.
EndMark == [opname |-> "end of block", inputs |-> <<>>, output |-> NoOutput, call_target |-> ""]

SameArtifact(step) ==
    replay.run = 2 => (replay.k <= Len(replay.script) /\ replay.script[replay.k] = step)

Replayed(step, body) ==
    IF replay.run = 1
    THEN [replay EXCEPT !.script = Append(@, step), !.bodies = @ \o body]
    ELSE IF replay.run = 2
    THEN [replay EXCEPT !.k = @ + 1, !.bodies = @ \o body]
    ELSE replay

LiftOp ==
    /\ pc = "lift"
    /\ nops < MaxOps
    /\ \E op \in menu :
         /\ InArtifact(op, decompile_info[CurFunction])
         /\ SameArtifact(op)
         /\ replay' = Replayed(op, <<>>)
         /\ \E st \in {StartRecord} :
            \E x \in {lift_operation(st, op, CurXmlBlock, ret_types[CurFunction])} :
                /\ vals' = x.vals
                /\ ir_blocks' = [ir_blocks EXCEPT ![CurLabel] = x.code]
                /\ temps' = x.temps
                /\ mem' = x.mem
                /\ branched' = x.branched
                /\ lhs' = x.lhs
                /\ rhs' = x.rhs
                /\ instrumentation' = x.instrumentation
                /\ functions' = x.functions
                /\ err' = x.err
                /\ pc' = IF x.err = "" THEN "lift" ELSE "failed"
                /\ copied' = CopiedAfter(x, op)
                /\ last' = [opname |-> op.opname, op |-> op, f |-> CurFunction,
                            label |-> CurLabel, n0 |-> Len(ir_blocks[CurLabel]),
                            nfetch |-> x.nfetch, l |-> x.l, rr |-> x.rr, wl |-> x.wl,
                            wr |-> x.wr, reads |-> x.reads, true_branch |-> x.true_branch,
                            false_branch |-> x.false_branch, result |-> x.result,
                            callee |-> x.callee, out |-> CurXmlBlock.out, err |-> x.err]
    /\ nops' = nops + 1
    /\ UNCHANGED <<inputVars, global_vars, functions_ir, ret_types, sig_i, fn_i,
                   locals, entry, block_labels, blk_i>>

\* The block's operations are over: the fall-through branch, then the next
\* block, or the next function after the last block.
\* A variant that never appends the branch.
NoFallThrough(st, xml_block) == st

FallThrough(st, xml_block) ==
    IF st.branched THEN st
    ELSE IF Len(xml_block.out) = 0 THEN Raise(st, "AttributeError")
    ELSE IF xml_block.out[1] \notin DOMAIN ir_blocks THEN Raise(st, "KeyError")
    ELSE Terminate(st, Jump("br", <<xml_block.out[1]>>))

LastBlock == blk_i = Len(block_labels)

EndBlock ==
    /\ pc = "lift"
    /\ SameArtifact(EndMark)
    /\ \E st \in {StartRecord} :
       \E x \in {FallThrough(st, CurXmlBlock)} :
           /\ ir_blocks' = [ir_blocks EXCEPT ![CurLabel] = x.code]
           /\ replay' = Replayed(EndMark,
                            IF x.err = "" /\ LastBlock
                            THEN <<[name |-> CurFunction, entry |-> entry, values |-> vals,
                                    labels |-> block_labels,
                                    blocks |-> [ir_blocks EXCEPT ![CurLabel] = x.code]]>>
                            ELSE <<>>)
           /\ err' = x.err
           /\ pc' = IF x.err # "" THEN "failed" ELSE IF LastBlock THEN "populate" ELSE "lift"
           /\ blk_i' = IF x.err = "" /\ ~LastBlock THEN blk_i + 1 ELSE blk_i
           /\ fn_i' = IF x.err = "" /\ LastBlock THEN fn_i + 1 ELSE fn_i
           /\ last' = [NoLast EXCEPT !.opname = "end of block", !.f = CurFunction,
                                     !.label = CurLabel, !.n0 = Len(ir_blocks[CurLabel]),
                                     !.out = CurXmlBlock.out, !.err = x.err]
    /\ branched' = FALSE
    /\ mem' = EmptyMap
    /\ copied' = EmptyMap
    /\ UNCHANGED <<inputVars, moduleVars, sig_i, vals, locals, temps, entry,
                   block_labels, lhs, rhs, nops>>

\* lift_binary returns lifter.module.
Finish ==
    /\ pc = "populate"
    /\ PopulateDone
    /\ pc' = "done"
    /\ UNCHANGED <<inputVars, err, moduleVars, sig_i, fn_i, funcVars, last, replay>>

Next ==
    \/ FishGlobals
    \/ CreateSignature
    \/ StartPopulate
    \/ NewFunction
    \/ LiftOp
    \/ EndBlock
    \/ Finish

\* What a call of lift_binary has produced when it is over: the exception or
\* the module (globals, functions with their signatures and parameter names,
\* and the bodies lifted).
Outcome ==
    [pc |-> pc, err |-> err, global_vars |-> global_vars, functions |-> functions,
     functions_ir |-> functions_ir, bodies |-> replay.bodies]

\* A variant in which the second Lifter adds to the module of the first.
KeptModule == [global_vars |-> global_vars, functions |-> functions]

\* self.module = ir.Module(name=filename)
NewModule == [global_vars |-> <<>>, functions |-> <<>>]

\* lift_binary is called a second time on the same mapping, file name and
\* options: a new Lifter with a new module, and nothing else is kept.
Relift ==
    /\ replay.run = 1
    /\ pc \in {"done", "failed"}
    /\ replay' = [replay EXCEPT !.run = 2, !.k = 1, !.bodies = <<>>, !.first = Outcome]
    /\ pc' = "fish_globals"
    /\ err' = ""
    /\ global_vars' = NewModule.global_vars
    /\ functions' = NewModule.functions
    /\ instrumentation' = EmptyMap
    /\ functions_ir' = EmptyMap
    /\ ret_types' = EmptyMap
    /\ sig_i' = 1
    /\ fn_i' = 1
    /\ vals' = <<>>
    /\ locals' = EmptyMap
    /\ temps' = EmptyMap
    /\ entry' = <<>>
    /\ block_labels' = <<>>
    /\ ir_blocks' = EmptyMap
    /\ blk_i' = 1
    /\ branched' = FALSE
    /\ lhs' = 0
    /\ rhs' = 0
    /\ mem' = EmptyMap
    /\ nops' = 0
    /\ copied' = EmptyMap
    /\ last' = NoLast
    /\ UNCHANGED inputVars

NextTwice ==
    \/ Next
    \/ Relift

ProgramInit(inputs) ==
    /\ \E inp \in inputs :
         /\ decompile_info = inp.info
         /\ function_names = inp.names
         /\ options = inp.options
         /\ menu = inp.menu
    /\ pc = "fish_globals"
    /\ err = ""
    /\ global_vars = <<>>
    /\ functions = <<>>
    /\ instrumentation = EmptyMap
    /\ functions_ir = EmptyMap
    /\ ret_types = EmptyMap
    /\ sig_i = 1
    /\ fn_i = 1
    /\ vals = <<>>
    /\ locals = EmptyMap
    /\ temps = EmptyMap
    /\ entry = <<>>
    /\ block_labels = <<>>
    /\ ir_blocks = EmptyMap
    /\ blk_i = 1
    /\ branched = FALSE
    /\ lhs = 0
    /\ rhs = 0
    /\ mem = EmptyMap
    /\ nops = 0
    /\ copied = EmptyMap
    /\ last = NoLast

InitWith(inputs) == ProgramInit(inputs) /\ replay = NoReplay

-----------------------------------------------------------------------------
\* The inputs of the specifications.

Op(opname, inputs, output) ==
    [opname |-> opname, inputs |-> inputs, output |-> output, call_target |-> ""]

CallOp(opname, call_target, inputs, output) ==
    [opname |-> opname, inputs |-> inputs, output |-> output, call_target |-> call_target]

Artifact(ret, args, xml_locals, varnodes, blocks) ==
    [ret |-> ret, args |-> args, locals |-> xml_locals, varnodes |-> varnodes, blocks |-> blocks]

RetVoid  == [type |-> "void", size |-> 0]
RetUndef == [type |-> "undefined8", size |-> 8]
RetInt   == [type |-> "int", size |-> 4]

\* Spec: one function of one block, made of data operations on a parameter,
\* two temporaries, a local, a register and constants of 4 and 8 bytes.
DataMenu ==
    {Op("COPY", <<Varnode(sArg1, 4)>>, Varnode(sUniqueA, 4)),
     Op("COPY", <<Varnode(sUniqueA, 4)>>, Varnode(sUniqueB, 4)),
     Op("COPY", <<Varnode(sFive, 4)>>, Varnode(sVar1, 4)),
     Op("COPY", <<Varnode(sVar1, 4)>>, Varnode(sUniqueA, 4)),
     Op("COPY", <<Varnode(sArg1, 4)>>, Varnode(sReg10, 4)),
     Op("COPY", <<Varnode(sReg10, 4)>>, Varnode(sUniqueB, 4)),
     Op("INT_ADD", <<Varnode(sArg1, 4), Varnode(sFive, 4)>>, Varnode(sUniqueB, 4)),
     Op("INT_ADD", <<Varnode(sArg1, 4), Varnode(sFive, 8)>>, Varnode(sUniqueB, 8)),
     Op("INT_SUB", <<Varnode(sFive, 8), Varnode(sUniqueA, 4)>>, Varnode(sUniqueB, 8)),
     Op("INT_EQUAL", <<Varnode(sUniqueA, 4), Varnode(sFive, 8)>>, Varnode(sUniqueB, 1)),
     Op("INT_XOR", <<Varnode(sArg1, 4), Varnode(sFive, 8)>>, Varnode(sUniqueB, 8)),
     Op("INT_OR", <<Varnode(sUniqueA, 4), Varnode(sFive, 4)>>, Varnode(sUniqueB, 4)),
     Op("PTRSUB", <<Varnode(sUniqueA, 4), Varnode(sFive, 8)>>, Varnode(sUniqueB, 8)),
     Op("PTRADD", <<Varnode(sArg1, 4), Varnode(sFive, 4), Varnode(sFive, 4)>>, Varnode(sUniqueB, 4))}

DataInputs ==
    {[names |-> <<"f">>,
      info |-> [n \in {"f"} |->
                  Artifact(RetVoid, <<[name |-> sArg1, size |-> 4]>>,
                           <<[name |-> sVar1, size |-> 4]>>,
                           <<Varnode(sReg10, 4), Varnode(sReg10, 8)>>,
                           <<[address |-> addr10, out |-> <<addr10>>]>>)],
      options |-> [stack |-> stack],
      menu |-> DataMenu] : stack \in {"no_option", "single_struct"}}

Init == InitWith(DataInputs)

Spec == Init /\ [][Next]_vars

\* SpecCfg: one function of three blocks; the first block's out-edges vary in
\* order and spelling, the operations are the control-flow ones.
CfgMenu ==
    {Op("BRANCH", <<Varnode(addr10, 4)>>, NoOutput),
     Op("CBRANCH", <<Varnode(addr10, 4), Varnode(sUniqueA, 1)>>, NoOutput),
     Op("CBRANCH", <<Varnode(addr0f, 4), Varnode(sUniqueA, 1)>>, NoOutput),
     Op("RETURN", <<Varnode(sZero, 4), Varnode(sArg1, 8)>>, NoOutput),
     Op("BRANCHIND", <<Varnode(sArg1, 8)>>, NoOutput),
     Op("INT_EQUAL", <<Varnode(sArg1, 8), Varnode(sFive, 8)>>, Varnode(sUniqueA, 1))}

CfgOutEdges ==
    {<<addr10, addr14>>, <<addr14, addr10>>, <<sHex10, addr14>>, <<addr14>>}

CfgInputs ==
    {[names |-> <<"f">>,
      info |-> [n \in {"f"} |->
                  Artifact(ret, <<[name |-> sArg1, size |-> 8]>>, <<>>, <<>>,
                           <<[address |-> addr0c, out |-> out],
                             [address |-> sHex10, out |-> <<addr14>>],
                             [address |-> addr14, out |-> <<>>]>>)],
      options |-> [stack |-> "no_option"],
      menu |-> CfgMenu] : ret \in {RetVoid, RetUndef, RetInt}, out \in CfgOutEdges}

InitCfg == InitWith(CfgInputs)

SpecCfg == InitCfg /\ [][Next]_vars

\* SpecModule: one or two functions that call each other, an unknown
\* function, the instrumentation symbols and an opcode without a case.
ModuleMenu ==
    {CallOp("CALL", "sym.path_goal", <<>>, NoOutput),
     CallOp("CALL", "sym.path_nongoal", <<>>, NoOutput),
     CallOp("CALL", "sym.path_start", <<>>, NoOutput),
     CallOp("CALL", "sym.imp.rand", <<>>, Varnode(sUniqueA, 4)),
     CallOp("CALL", "g", <<Varnode(sArg1, 4)>>, Varnode(sUniqueA, 4)),
     CallOp("CALLIND", "h", <<>>, NoOutput),
     Op("COPY", <<Varnode(sUniqueA, 4)>>, Varnode(sUniqueB, 4)),
     Op("FLOAT_ADD", <<Varnode(sUniqueA, 4), Varnode(sUniqueA, 4)>>, Varnode(sUniqueB, 4))}

ModuleArtifact(n) ==
    IF n = "f"
    THEN Artifact(RetVoid, <<[name |-> sArg1, size |-> 4], [name |-> sArg2, size |-> 8]>>,
                  <<>>, <<>>, <<[address |-> addr10, out |-> <<addr10>>]>>)
    ELSE Artifact(RetInt, <<[name |-> sArg1, size |-> 4]>>,
                  <<>>, <<>>, <<[address |-> addr14, out |-> <<addr14>>]>>)

ModuleInputs ==
    {[names |-> names,
      info |-> [n \in {names[i] : i \in 1..Len(names)} |-> ModuleArtifact(n)],
      options |-> [stack |-> "no_option"],
      menu |-> ModuleMenu] : names \in {<<"f">>, <<"f", "g">>, <<"g", "f">>}}

InitModule == InitWith(ModuleInputs)

SpecModule == InitModule /\ [][Next]_vars

\* SpecScan: two functions whose artifacts hold every list of at most
\* MaxVarnodes varnode lines over registers and object symbols of several sizes.
ScanVarnodes ==
    {Varnode(sReg10, 1), Varnode(sReg10, 4), Varnode(sReg10, 8), Varnode(sReg20, 4),
     Varnode(sObjA, 4), Varnode(sObjB, 8)}

ScanLists == UNION {[1..n -> ScanVarnodes] : n \in 0..MaxVarnodes}

ScanMenu ==
    {Op("COPY", <<Varnode(sReg10, 4)>>, Varnode(sUniqueA, 4)),
     Op("COPY", <<Varnode(sObjA, 4)>>, Varnode(sUniqueA, 4)),
     Op("COPY", <<Varnode(sFive, 8)>>, Varnode(sReg10, 8))}

ScanInputs ==
    {[names |-> <<"f", "g">>,
      info |-> [n \in {"f", "g"} |->
                  Artifact(RetVoid, <<>>, <<>>, IF n = "f" THEN vf ELSE vg,
                           <<[address |-> addr10, out |-> <<addr10>>]>>)],
      options |-> [stack |-> "no_option"],
      menu |-> ScanMenu] :
        vf \in ScanLists,
        vg \in {<<>>, <<Varnode(sObjA, 8)>>, <<Varnode(sReg10, 1)>>,
                <<Varnode(sObjB, 8), Varnode(sObjA, 4)>>}}

InitScan == InitWith(ScanInputs)

SpecScan == InitScan /\ [][Next]_vars

\* SpecResolve: one function of one block made of COPY operations (and a
\* call of a void intrinsic) whose inputs are names that match one or
\* several of the rules of fetch_input: obj_arg is a parameter and a global,
\* objA a global and a local, unique_true a temporary once written and a
\* boolean literal before; the temporaries are read at several sizes.
ResolveMenu ==
    {Op("COPY", <<Varnode(sArg1, 4)>>, Varnode(sUniqueA, 4)),
     Op("COPY", <<Varnode(sObjArg, 4)>>, Varnode(sUniqueB, 4)),
     Op("COPY", <<Varnode(sObjA, 4)>>, Varnode(sUniqueB, 4)),
     Op("COPY", <<Varnode(sVar1, 4)>>, Varnode(sUniqueB, 4)),
     Op("COPY", <<Varnode(sFive, 4)>>, Varnode(sUniqueT, 4)),
     Op("COPY", <<Varnode(sUniqueT, 4)>>, Varnode(sUniqueB, 4)),
     Op("COPY", <<Varnode(sTrue, 1)>>, Varnode(sUniqueA, 1)),
     Op("COPY", <<Varnode(sUniqueA, 8)>>, Varnode(sUniqueB, 8)),
     Op("COPY", <<Varnode(sUniqueA, 2)>>, Varnode(sUniqueB, 2)),
     Op("COPY", <<Varnode(sUniqueA, 1)>>, Varnode(sUniqueB, 1)),
     Op("COPY", <<Varnode(sArgc, 4)>>, Varnode(sUniqueB, 4)),
     Op("COPY", <<Varnode(sJunk, 4)>>, Varnode(sUniqueB, 4)),
     Op("COPY", <<Varnode(sLocHex, 4)>>, Varnode(sUniqueB, 4)),
     Op("COPY", <<Varnode(sHexUpper, 4)>>, Varnode(sUniqueB, 4)),
     CallOp("CALL", "sym.path_goal", <<>>, Varnode(sUniqueA, 4))}

ResolveInputs ==
    {[names |-> <<"f">>,
      info |-> [n \in {"f"} |->
                  Artifact(RetVoid,
                           <<[name |-> sArg1, size |-> 4], [name |-> sObjArg, size |-> 8]>>,
                           <<[name |-> sVar1, size |-> locsize], [name |-> sObjA, size |-> 8]>>,
                           <<Varnode(sObjA, 4), Varnode(sObjArg, 4)>>,
                           <<[address |-> addr10, out |-> <<addr10>>]>>)],
      options |-> [stack |-> "no_option"],
      menu |-> ResolveMenu] : locsize \in {4, 8}}

InitResolve == InitWith(ResolveInputs)

SpecResolve == InitResolve /\ [][Next]_vars

\* SpecPiece: one function of one block made of PIECE and SUBPIECE operations
\* on constants and temporaries of 1, 2 and 3 bytes.
PieceMenu ==
    {Op("PIECE", <<Varnode(sHex0102, 2), Varnode(sHexF304, 2)>>, Varnode(sUniqueA, 3)),
     Op("PIECE", <<Varnode(sHex0102, 2), Varnode(sThree, 1)>>, Varnode(sUniqueA, 3)),
     Op("PIECE", <<Varnode(sThree, 1), Varnode(sHex0102, 2)>>, Varnode(sUniqueA, 3)),
     Op("PIECE", <<Varnode(sUniqueB, 2), Varnode(sHexF304, 2)>>, Varnode(sUniqueA, 3)),
     Op("COPY", <<Varnode(sHexF304, 2)>>, Varnode(sUniqueB, 2)),
     Op("SUBPIECE", <<Varnode(sUniqueA, 3), Varnode(sZero, 2)>>, Varnode(sUniqueB, 2)),
     Op("SUBPIECE", <<Varnode(sUniqueB, 2), Varnode(sZero, 2)>>, Varnode(sUniqueA, 2)),
     Op("SUBPIECE", <<Varnode(sUniqueA, 3), Varnode(sOne, 2)>>, Varnode(sUniqueB, 2)),
     Op("SUBPIECE", <<Varnode(sHex0102, 2), Varnode(sZero, 1)>>, Varnode(sUniqueB, 1))}

PieceInputs ==
    {[names |-> <<"f">>,
      info |-> [n \in {"f"} |->
                  Artifact(RetVoid, <<>>, <<>>, <<>>,
                           <<[address |-> addr10, out |-> <<addr10>>]>>)],
      options |-> [stack |-> "no_option"],
      menu |-> PieceMenu]}

InitPiece == InitWith(PieceInputs)

SpecPiece == InitPiece /\ [][Next]_vars

\* SpecTwice: lift_binary is called twice on the same input, one or two
\* functions with a global, an instrumented call, a call of the other
\* function and an addition that retypes the parameter.
TwiceMenu ==
    {CallOp("CALL", "sym.path_goal", <<>>, NoOutput),
     CallOp("CALL", "g", <<Varnode(sArg1, 4)>>, Varnode(sUniqueA, 4)),
     Op("INT_ADD", <<Varnode(sArg1, 4), Varnode(sFive, 8)>>, Varnode(sUniqueB, 8))}

TwiceInputs ==
    {[names |-> names,
      info |-> [n \in {names[i] : i \in 1..Len(names)} |->
                  Artifact(IF n = "f" THEN RetVoid ELSE RetInt,
                           <<[name |-> sArg1, size |-> 4]>>, <<>>, <<Varnode(sObjA, 4)>>,
                           <<[address |-> addr10, out |-> <<addr10>>]>>)],
      options |-> [stack |-> "no_option"],
      menu |-> TwiceMenu] : names \in {<<"f">>, <<"f", "g">>}}

InitTwice == ProgramInit(TwiceInputs) /\ replay = [NoReplay EXCEPT !.run = 1]

SpecTwice == InitTwice /\ [][NextTwice]_vars

\* SpecStore: one function of one block whose operations write and read
\* two temporaries, a register that has a slot, and the parameter, and compare
\* the parameter with a constant in the six ways.
StoreMenu ==
    {Op("COPY", <<Varnode(sFive, 4)>>, Varnode(sUniqueA, 4)),
     Op("COPY", <<Varnode(sArg1, 4)>>, Varnode(sUniqueA, 4)),
     Op("COPY", <<Varnode(sUniqueA, 4)>>, Varnode(sUniqueB, 4)),
     Op("COPY", <<Varnode(sArg1, 4)>>, Varnode(sReg10, 4)),
     Op("COPY", <<Varnode(sReg10, 4)>>, Varnode(sUniqueB, 4)),
     Op("COPY", <<Varnode(sFive, 4)>>, Varnode(sArg1, 4)),
     Op("COPY", <<Varnode(sUniqueB, 1)>>, Varnode(sUniqueA, 1))}
    \cup {Op(c, <<Varnode(sArg1, 4), Varnode(sFive, 4)>>, Varnode(sUniqueB, 1)) : c \in ComparisonOps}

StoreInputs ==
    {[names |-> <<"f">>,
      info |-> [n \in {"f"} |->
                  Artifact(RetVoid, <<[name |-> sArg1, size |-> 4]>>, <<>>,
                           <<Varnode(sReg10, 4)>>,
                           <<[address |-> addr10, out |-> <<addr10>>]>>)],
      options |-> [stack |-> "no_option"],
      menu |-> StoreMenu]}

InitStore == InitWith(StoreInputs)

SpecStore == InitStore /\ [][Next]_vars

\* SpecWidth: one function of one block that reads a constant, a register and
\* a temporary at sizes of 1, 2, 4 and 8 bytes; the register occurs in the
\* artifact with sizes of 1 and 4 bytes.
WidthMenu ==
    {Op("COPY", <<Varnode(sFive, sz)>>, Varnode(sUniqueA, sz)) : sz \in {1, 2, 4, 8}}
    \cup {Op("COPY", <<Varnode(sReg10, sz)>>, Varnode(sUniqueB, sz)) : sz \in {1, 4}}
    \cup {Op("COPY", <<Varnode(sUniqueA, 1)>>, Varnode(sUniqueB, 1)),
          Op("COPY", <<Varnode(sArg1, 4)>>, Varnode(sUniqueA, 4))}

WidthInputs ==
    {[names |-> <<"f">>,
      info |-> [n \in {"f"} |->
                  Artifact(RetVoid, <<[name |-> sArg1, size |-> 4]>>, <<>>, varnodes,
                           <<[address |-> addr10, out |-> <<addr10>>]>>)],
      options |-> [stack |-> "no_option"],
      menu |-> WidthMenu] :
        varnodes \in {<<Varnode(sReg10, 1)>>, <<Varnode(sReg10, 4)>>,
                      <<Varnode(sReg10, 1), Varnode(sReg10, 4)>>}}

InitWidth == InitWith(WidthInputs)

SpecWidth == InitWidth /\ [][Next]_vars

-----------------------------------------------------------------------------
\* The properties.

\* The instructions of the current function's blocks, and its artifact.
TwoOperandOps ==
    {"add", "sub", "mul", "udiv", "sdiv", "urem", "srem", "and", "or", "xor",
     "shl", "lshr", "ashr",
     "icmp ==", "icmp !=", "icmp s<", "icmp s<=", "icmp u<", "icmp u<="}

Count(code, ops) == Cardinality({i \in 1..Len(code) : code[i].op \in ops})

Widest(ws) == CHOOSE m \in ws : \A x \in ws : x <= m

\* C1: when the translation of a function body starts, and from then on, the
\* signature (return type and named parameters) of every input function has
\* been created in the module.
SignaturesBeforeBodies ==
    (pc = "lift" \/ nops > 0) =>
        \A i \in 1..Len(function_names) :
            LET name == function_names[i]
                xml == decompile_info[name]
            IN  /\ name \in DOMAIN functions_ir
                /\ functions_ir[name].ret = ReturnWidth(xml.ret)
                /\ Len(functions_ir[name].args) = Len(xml.args)
                /\ \A k \in 1..Len(xml.args) :
                       functions_ir[name].args[k] =
                           [name |-> xml.args[k].name, w |-> 8 * xml.args[k].size]
                /\ \E k \in 1..Len(functions) : functions[k] = functions_ir[name]

\* An operation of the first function's body has been translated in a pass
\* over two functions.
BodyStartedOfTwo == Len(function_names) = 2 /\ fn_i = 1 /\ nops > 0 /\ last.opname = "CALL"

\* C2: once a function has been lifted, its entry block and the IR block of
\* each of its artifact blocks hold exactly one terminator, as their last
\* instruction, whatever operations the artifact blocks held.
EveryBlockOneTerminator ==
    (pc \in {"populate", "done"} /\ fn_i > 1) =>
        /\ Count(entry, Terminators) = 1
        /\ entry[Len(entry)].op \in Terminators
        /\ \A label \in DOMAIN ir_blocks :
               /\ Count(ir_blocks[label], Terminators) = 1
               /\ ir_blocks[label][Len(ir_blocks[label])].op \in Terminators

\* C3: every two-operand integer instruction in the blocks of the function
\* has two operands of one width.
BinaryOperandsSameWidth ==
    \A label \in DOMAIN ir_blocks :
        \A i \in 1..Len(ir_blocks[label]) :
            LET ins == ir_blocks[label][i]
            IN  ins.op \in TwoOperandOps => vals[ins.args[1]].w = vals[ins.args[2]].w

\* C4: after a width-reconciled operation both operand objects have the
\* wider of the two widths they were resolved with (the narrower is retyped,
\* the wider and equal ones are unchanged), and the instruction that follows
\* the resolution of the inputs is the operation itself on those two objects:
\* no zext, sext or trunc is emitted for the reconciliation.
ReconciliationRetypesNarrower ==
    (last.opname \in ReconciledOps /\ last.err = "") =>
        LET code == ir_blocks[last.label]
            wide == IF last.wl > last.wr THEN last.wl ELSE last.wr
        IN  /\ vals[last.l].w = wide
            /\ vals[last.rr].w = wide
            /\ Len(code) > last.nfetch
            /\ code[last.nfetch + 1].op = IrOp(last.opname)
            /\ code[last.nfetch + 1].args = <<last.l, last.rr>>
            /\ \A i \in (last.nfetch + 1)..Len(code) :
                   code[i].op \notin {"zext", "sext", "trunc"}

\* An INT_ADD whose first operand was resolved narrower than its second.
NarrowerOperandRetyped ==
    last.opname = "INT_ADD" /\ last.err = "" /\ last.wl = 32 /\ last.wr = 64

\* The register symbols of the current function's artifact, and the widths
\* of the occurrences of one of them.
RegisterSymbols ==
    LET occs == decompile_info[CurFunction].varnodes
    IN  {occs[i].symbol : i \in {j \in 1..Len(occs) : IsRegisterLine(occs[j].symbol)}}

OccurrenceSizes(r) ==
    LET occs == decompile_info[CurFunction].varnodes
    IN  {occs[i].size : i \in {j \in 1..Len(occs) : occs[j].symbol = r}}

SlotsOf(r) == {i \in 1..Len(entry) : entry[i].op = "alloca" /\ entry[i].sym = r}

\* C5, as stated: every register of the function has exactly one slot in the
\* entry block, as wide as 8 times the largest declared size of its occurrences.
RegisterSlotMaxDeclaredWidth ==
    pc = "lift" =>
        \A r \in RegisterSymbols :
            /\ Cardinality(SlotsOf(r)) = 1
            /\ r \in DOMAIN locals
            /\ locals[r] = Widest({8 * sz : sz \in OccurrenceSizes(r)})

\* C5, amended: every register of the function has exactly one slot in the
\* entry block, as wide as the widest of its occurrences in any order, where
\* an occurrence of s bytes is 8*s bits wide and one of 1 byte is 1 bit wide.
RegisterSlotWidestUse ==
    pc = "lift" =>
        \A r \in RegisterSymbols :
            /\ Cardinality(SlotsOf(r)) = 1
            /\ r \in DOMAIN locals
            /\ locals[r] = Widest({IF sz = 1 THEN 1 ELSE 8 * sz : sz \in OccurrenceSizes(r)})

\* A register occurs first with a larger size and later with a smaller one.
WiderOccurrenceFirst ==
    /\ pc = "lift"
    /\ LET occs == decompile_info[CurFunction].varnodes
       IN  \E i, j \in 1..Len(occs) :
               /\ i < j
               /\ occs[i].symbol = occs[j].symbol
               /\ IsRegisterLine(occs[i].symbol)
               /\ occs[i].size > occs[j].size

\* C6: after global discovery the globals are the distinct symbols beginning
\* with obj or _obj of all artifacts, each created once and zero-initialized.
GlobalsAreObjectSymbols ==
    pc # "fish_globals" =>
        LET occs == AllVarnodes(function_names, decompile_info)
            objs == {occs[i].symbol : i \in {j \in 1..Len(occs) :
                        \/ SubSeq(occs[j].symbol, 1, 3) = <<"o","b","j">>
                        \/ SubSeq(occs[j].symbol, 1, 4) = <<"_","o","b","j">>}}
        IN  /\ {global_vars[i].name : i \in 1..Len(global_vars)} = objs
            /\ \A sym \in objs :
                   Cardinality({i \in 1..Len(global_vars) : global_vars[i].name = sym}) = 1
            /\ \A i \in 1..Len(global_vars) : global_vars[i].init = 0

\* Global discovery is over and an object symbol occurs in both functions.
ObjectSymbolInTwoFunctions ==
    /\ pc = "signatures"
    /\ \E i \in 1..Len(decompile_info["f"].varnodes) :
       \E j \in 1..Len(decompile_info["g"].varnodes) :
           /\ decompile_info["f"].varnodes[i].symbol = decompile_info["g"].varnodes[j].symbol
           /\ IsObjLine(decompile_info["f"].varnodes[i].symbol)

\* C7: a CBRANCH in a block of two out-edges takes the out-edge that equals
\* its formatted target, or that target plus one, as the true target and the
\* other as the false one, wherever the matching edge stands; it assigns by
\* position (first true, second false) only when neither edge matches.
CBranchMatchesTrueTarget ==
    (last.opname = "CBRANCH" /\ last.err = "" /\ Len(last.out) = 2) =>
        LET target == format_label(last.op.inputs[1].symbol)
            m1 == last.out[1] \in {target, OffByOne(target)}
            m2 == last.out[2] \in {target, OffByOne(target)}
        IN  /\ (m1 /\ ~m2) =>
                   (last.true_branch = last.out[1] /\ last.false_branch = last.out[2])
            /\ (m2 /\ ~m1) =>
                   (last.true_branch = last.out[2] /\ last.false_branch = last.out[1])
            /\ (~m1 /\ ~m2) =>
                   (last.true_branch = last.out[1] /\ last.false_branch = last.out[2])

\* C8: every conditional branch in the function's blocks has the condition
\* and two block operands that are blocks of the function, and the one a
\* CBRANCH has just emitted has the block chosen as false first and the
\* block chosen as true second.
CBranchOperandOrder ==
    /\ \A label \in DOMAIN ir_blocks :
           \A i \in 1..Len(ir_blocks[label]) :
               LET ins == ir_blocks[label][i]
               IN  ins.op = "cbranch" =>
                       /\ Len(ins.args) = 1
                       /\ Len(ins.tgt) = 2
                       /\ ins.tgt[1] \in DOMAIN ir_blocks
                       /\ ins.tgt[2] \in DOMAIN ir_blocks
    /\ (last.opname = "CBRANCH" /\ last.err = "") =>
           LET code == ir_blocks[last.label]
           IN  /\ Len(code) = last.n0 + 1
               /\ code[Len(code)].op = "cbranch"
               /\ code[Len(code)].args = <<last.reads[1].val>>
               /\ code[Len(code)].tgt = <<last.false_branch, last.true_branch>>

\* A CBRANCH has emitted its branch to two different blocks.
CBranchEmitted ==
    last.opname = "CBRANCH" /\ last.err = "" /\ last.true_branch # last.false_branch

\* C9: a CALL to sym.path_goal or sym.path_nongoal does not fail, leaves
\* verifier.error declared exactly once in the module, and emits one call to
\* it with no arguments.
VerifierErrorDeclaredOnce ==
    (last.opname = "CALL" /\ last.op.call_target \in {"sym.path_goal", "sym.path_nongoal"}) =>
        /\ last.err = ""
        /\ Cardinality({i \in 1..Len(functions) : functions[i].name = "verifier.error"}) = 1
        /\ LET code == ir_blocks[last.label]
           IN  /\ Len(code) = last.n0 + 1
               /\ code[Len(code)].op = "call"
               /\ code[Len(code)].sym = "verifier.error"
               /\ code[Len(code)].args = <<>>

\* C10: a read of a varnode that holds the result of a COPY of the same
\* declared width yields the value the COPY read.
CopyThenReadSameValue ==
    \A i \in 1..Len(last.reads) :
        LET rd == last.reads[i]
        IN  (rd.cval # 0 /\ rd.csize = rd.size) =>
                vals[rd.val].root = vals[rd.cval].root

\* C11: an operation whose opcode has no case raises an exception whose
\* message ends with that opcode and emits nothing; once an exception has
\* aborted the pass nothing changes any more: no later operation of any block
\* or function is translated and lift_binary returns no module.
UnknownOpcodeAborts ==
    /\ []((last.opname \notin ImplementedOps \cup {"", "end of block"}) =>
             /\ err = "Exception: Not expected: " \o last.opname
             /\ pc = "failed"
             /\ Len(ir_blocks[last.label]) = last.n0)
    /\ [][pc = "failed" => (pc' = "failed" /\ UNCHANGED vars)]_vars

\* The first of two functions has met an opcode without a case.
UnknownOpcodeInFirstOfTwo ==
    /\ pc = "failed"
    /\ last.opname = "FLOAT_ADD"
    /\ Len(function_names) = 2
    /\ fn_i = 1

\* C13: the signature's return type is void for the return type text void,
\* 64 bits wide for undefined8 and 8 times the declared size wide otherwise;
\* a RETURN emits a void return exactly when the function's recorded return
\* type is void, and otherwise a return of the value its input[1] resolved to.
ReturnFollowsReturnType ==
    /\ \A name \in DOMAIN functions_ir :
           LET ret == decompile_info[name].ret
           IN  /\ functions_ir[name].ret =
                      (IF ret.type = "void" THEN 0
                       ELSE IF ret.type = "undefined8" THEN 64 ELSE 8 * ret.size)
               /\ (ret_types[name] = "void") <=> (ret.type = "void")
    /\ (last.opname = "RETURN" /\ last.err = "") =>
           LET code == ir_blocks[last.label]
               ins == code[Len(code)]
           IN  /\ Len(code) = last.n0 + 1
               /\ IF ret_types[last.f] = "void"
                  THEN ins.op = "ret_void" /\ last.reads = <<>>
                  ELSE /\ ins.op = "ret"
                       /\ Len(last.reads) = 1
                       /\ last.reads[1].symbol = last.op.inputs[2].symbol
                       /\ ins.args = <<last.reads[1].val>>

\* A RETURN in a function whose return type is neither void nor undefined8.
ReturnOfSizedValue ==
    /\ last.opname = "RETURN"
    /\ last.err = ""
    /\ decompile_info[last.f].ret.type = "int"
    /\ functions_ir[last.f].ret = 32

BranchIndEmitsBranch ==
    (last.opname = "BRANCHIND" /\ last.err = "") =>
        LET code == ir_blocks[last.label]
        IN  /\ Len(code) = last.n0 + 1
            /\ code[Len(code)].op = "br"
            /\ branched

\* What the rules of input resolution say of a name in function f.
IsFatalName(s) == Contains(s, <<"a","r","g","v">>) \/ Contains(s, <<"a","r","g","c">>)

IsParameterOf(s, f) ==
    /\ Contains(s, <<"a","r","g">>)
    /\ \E i \in 1..Len(decompile_info[f].args) : decompile_info[f].args[i].name = s

IsGlobalName(s) == \E i \in 1..Len(global_vars) : global_vars[i].name = s

IsBooleanName(s) == Contains(s, <<"f","a","l","s","e">>) \/ Contains(s, <<"t","r","u","e">>)

\* The operand of the instruction of code whose result is the object id.
OperandOf(code, id) ==
    LET at == {i \in 1..Len(code) : code[i].res = id}
    IN  IF at = {} THEN 0 ELSE code[CHOOSE i \in at : TRUE].args[1]

IsLoadOf(v, s, w) == v.kind = "load" /\ v.name = s /\ v.w0 = w

\* C19: every input is resolved by the first rule of the fixed order that its
\* name matches: argv or argc in the name is fatal; then the parameter of the
\* name; then a load of the global; then a load of the local (truncated to
\* the width asked for when that differs); then the entry of the temporaries
\* table (itself, a truncation of it, or the 1-bit 0 for a void entry); then
\* the 1-bit constant of false or true; then an integer constant.
ResolutionOrder ==
    /\ \A i \in 1..Len(last.reads) :
           LET rd == last.reads[i]
               s == rd.symbol
               v == vals[rd.val]
               code == ir_blocks[last.label]
           IN  /\ ~IsFatalName(s)
               /\ IF IsParameterOf(s, last.f) THEN v.kind = "arg" /\ v.name = s
                  ELSE IF IsGlobalName(s) THEN IsLoadOf(v, s, GlobalWidth(s))
                  ELSE IF s \in DOMAIN locals
                  THEN \/ IsLoadOf(v, s, locals[s])
                       \/ /\ v.kind = "trunc"
                          /\ IsLoadOf(vals[OperandOf(code, rd.val)], s, locals[s])
                  ELSE IF rd.tval # 0
                  THEN \/ rd.val = rd.tval
                       \/ v.kind = "trunc" /\ OperandOf(code, rd.val) = rd.tval
                       \/ rd.tw = 0 /\ v.kind = "const" /\ v.w0 = 1 /\ v.val = 0
                  ELSE IF Contains(s, <<"f","a","l","s","e">>)
                  THEN v.kind = "const" /\ v.w0 = 1 /\ v.val = 0
                  ELSE IF Contains(s, <<"t","r","u","e">>)
                  THEN v.kind = "const" /\ v.w0 = 1 /\ v.val = 1
                  ELSE v.kind = "const" /\ v.w0 = rd.w
    /\ (last.opname = "COPY" /\ IsFatalName(last.op.inputs[1].symbol)) =>
           last.err = "Exception: argc and argv weird behaviour"

\* A name that is a parameter and a global has been read.
ParameterAndGlobalRead ==
    /\ last.opname = "COPY"
    /\ last.err = ""
    /\ last.reads[1].symbol = sObjArg
    /\ IsGlobalName(sObjArg)

\* A text is a well-formed integer literal: decimal digits, or 0x and
\* hexadecimal digits, with an optional U at its end.
WellFormedLiteral(s) ==
    LET t == IF Len(s) > 0 /\ s[Len(s)] = "U" THEN SubSeq(s, 1, Len(s) - 1) ELSE s
    IN  \/ Len(t) > 0 /\ \A i \in 1..Len(t) : t[i] \in {HexDigits[k] : k \in 1..10}
        \/ /\ Len(t) > 2
           /\ SubSeq(t, 1, 2) = <<"0","x">>
           /\ \A i \in 3..Len(t) :
                  t[i] \in {HexDigits[k] : k \in 1..16} \cup {UpperHexDigits[k] : k \in 1..6}

\* C15: a name that matches no parameter, global, local, temporary or
\* boolean literal and is no well-formed integer literal is resolved, without
\* an exception, to the constant 0 of the width asked for.
UnparsableReadsZero ==
    /\ \A i \in 1..Len(last.reads) :
           LET rd == last.reads[i]
               s == rd.symbol
               v == vals[rd.val]
           IN  (/\ ~IsParameterOf(s, last.f)
                /\ ~IsGlobalName(s)
                /\ s \notin DOMAIN locals
                /\ rd.tval = 0
                /\ ~IsBooleanName(s)
                /\ ~WellFormedLiteral(s)) =>
                   (v.kind = "const" /\ v.val = 0 /\ v.w0 = rd.w)
    /\ (last.opname = "COPY" /\ last.op.inputs[1].symbol = sJunk) => last.err = ""

\* C20: a read of a name of the temporaries table yields the entry itself,
\* except a truncation of it to the width asked for when that is narrower
\* than the entry's and the entry is not 1 bit wide, and except the 1-bit
\* constant 0 for a void entry; no truncation is made to a wider width.
TempReadTruncatesOnlyNarrower ==
    \A i \in 1..Len(last.reads) :
        LET rd == last.reads[i]
            s == rd.symbol
            v == vals[rd.val]
            code == ir_blocks[last.label]
        IN  (/\ rd.tval # 0
             /\ ~IsParameterOf(s, last.f)
             /\ ~IsGlobalName(s)
             /\ s \notin DOMAIN locals) =>
                IF rd.tw = 0 THEN v.kind = "const" /\ v.w0 = 1 /\ v.val = 0
                ELSE IF rd.w < rd.tw /\ rd.tw # 1
                THEN /\ v.kind = "trunc"
                     /\ v.w0 = rd.w
                     /\ OperandOf(code, rd.val) = rd.tval
                ELSE rd.val = rd.tval

\* The number an IR value denotes in its block: constants are read modulo
\* 2^width, zext keeps the number, trunc reduces it modulo 2^width, shl and
\* or are the bitwise operations on the width of the result.
ShiftLeft(a, amount, w) ==
    IF amount >= w THEN 0 ELSE (a % (2 ^ (w - amount))) * (2 ^ amount)

RECURSIVE BitOr(_, _)
BitOr(a, b) ==
    Bind(<<a, b>>, LAMBDA x :
        IF x[1] = 0 THEN x[2]
        ELSE IF x[2] = 0 THEN x[1]
        ELSE 2 * BitOr(x[1] \div 2, x[2] \div 2)
             + (IF x[1] % 2 = 1 \/ x[2] % 2 = 1 THEN 1 ELSE 0))

DefinedBy(code, id) == code[CHOOSE i \in 1..Len(code) : code[i].res = id]

RECURSIVE NumberOf(_, _, _)
NumberOf(heap, code, id) ==
    Bind(heap[id], LAMBDA v :
        IF v.kind = "const" THEN v.val % (2 ^ v.w)
        ELSE Bind(DefinedBy(code, id), LAMBDA ins :
            IF ins.op = "zext" THEN NumberOf(heap, code, ins.args[1])
            ELSE IF ins.op = "trunc" THEN NumberOf(heap, code, ins.args[1]) % (2 ^ v.w)
            ELSE IF ins.op = "shl"
            THEN ShiftLeft(NumberOf(heap, code, ins.args[1]), NumberOf(heap, code, ins.args[2]), v.w)
            ELSE BitOr(NumberOf(heap, code, ins.args[1]), NumberOf(heap, code, ins.args[2]))))

\* C14, as stated: the result of a PIECE of output width W is the most
\* significant operand shifted left by the width of the resolved least
\* significant operand, or-ed with the least significant operand, modulo 2^W.
PieceShiftsByResolvedWidth ==
    (last.opname = "PIECE" /\ last.err = "") =>
        LET code == ir_blocks[last.label]
            W == 8 * last.op.output.size
            most == NumberOf(vals, code, last.reads[1].val)
            least == NumberOf(vals, code, last.reads[2].val)
        IN  NumberOf(vals, code, last.result) =
                BitOr(ShiftLeft(most, last.reads[2].rw, W), least)

\* C14, amended: the result of a PIECE of output width W is the most
\* significant operand shifted left by 8 times the declared size of the
\* least significant input, or-ed with the least significant operand as
\* resolved, modulo 2^W; it is the value stored to the output.
PieceShiftsByDeclaredSize ==
    (last.opname = "PIECE" /\ last.err = "") =>
        LET code == ir_blocks[last.label]
            W == 8 * last.op.output.size
            most == NumberOf(vals, code, last.reads[1].val)
            least == NumberOf(vals, code, last.reads[2].val)
        IN  /\ NumberOf(vals, code, last.result) =
                   BitOr(ShiftLeft(most, 8 * last.op.inputs[2].size, W), least)
            /\ vals[last.result].w = W
            /\ temps[last.op.output.symbol] = last.result

\* A PIECE of two 2-byte operands whose most significant one does not fit
\* the 3-byte output with the other.
PieceOfTwoHalves ==
    /\ last.opname = "PIECE"
    /\ last.err = ""
    /\ last.reads[1].rw = 16
    /\ last.reads[2].rw = 16
    /\ NumberOf(vals, ir_blocks[last.label], last.reads[1].val) > 255
    /\ NumberOf(vals, ir_blocks[last.label], last.reads[2].val) > 0

\* C16, as stated: a SUBPIECE whose second input is the text 0 emits a
\* truncation of its first input to 8 times the second input's declared size
\* and stores it to the output; one with another offset raises an exception.
SubpieceEmitsTruncation ==
    last.opname = "SUBPIECE" =>
        LET code == ir_blocks[last.label]
        IN  IF last.op.inputs[2].symbol = <<"0">>
            THEN /\ last.err = ""
                 /\ Len(code) > last.n0
                 /\ code[Len(code)].op = "trunc"
                 /\ code[Len(code)].args = <<last.reads[1].val>>
                 /\ code[Len(code)].res = last.result
                 /\ vals[last.result].w = 8 * last.op.inputs[2].size
                 /\ temps[last.op.output.symbol] = last.result
            ELSE last.err = "Exception: Unexpected subpiece operation"

\* C16, amended: a SUBPIECE whose second input is the text 0 stores to the
\* output a truncation of its first input to 8 times the second input's
\* declared size, or the first input itself, with no instruction, when it has
\* that width already; one with another offset raises an exception, and the
\* step that raises changes no table and emits no store.
SubpieceTruncatesAtOffsetZero ==
    /\ [](last.opname = "SUBPIECE" =>
             LET code == ir_blocks[last.label]
                 arg == last.reads[1].val
                 w == 8 * last.op.inputs[2].size
             IN  IF last.op.inputs[2].symbol = <<"0">>
                 THEN /\ last.err = ""
                      /\ vals[last.result].w = w
                      /\ temps[last.op.output.symbol] = last.result
                      /\ IF last.reads[1].rw = w
                         THEN last.result = arg
                         ELSE /\ code[Len(code)].op = "trunc"
                              /\ code[Len(code)].args = <<arg>>
                              /\ code[Len(code)].res = last.result
                 ELSE last.err = "Exception: Unexpected subpiece operation")
    /\ [][(last'.opname = "SUBPIECE" /\ last'.err # "" /\ pc = "lift") =>
              (temps' = temps /\ mem' = mem /\ pc' = "failed"
               /\ Count(ir_blocks'[last'.label], {"store"})
                      = Count(ir_blocks[last'.label], {"store"}))]_vars

\* A SUBPIECE at offset 0 whose first input is wider than the truncation.
SubpieceOfWiderInput ==
    /\ last.opname = "SUBPIECE"
    /\ last.err = ""
    /\ last.reads[1].rw > 8 * last.op.inputs[2].size

Appended ==
    LET code == ir_blocks'[last'.label]
    IN  SubSeq(code, last'.n0 + 1, Len(code))

StoresToMemory ==
    \E i \in 1..Len(Appended) : Appended[i].op \in {"store", "bitcast"}

IsTemporaryName(s) ==
    Contains(s, <<"r","e","g","i","s","t","e","r">>) \/ Contains(s, <<"u","n","i","q","u","e">>)

\* An operation has been translated without an exception and has handed its
\* result to fetch_store_output.
ResultStored ==
    /\ nops' = nops + 1
    /\ last'.err = ""
    /\ last'.result # 0
    /\ last'.op.output # NoOutput
    /\ StoresResult(last'.opname)

\* Reads of the temporaries table return its entry when the entry has the
\* width asked for or is 1 bit wide.
ReadsReturnEntry ==
    \A i \in 1..Len(last.reads) :
        LET rd == last.reads[i]
        IN  (/\ rd.tval # 0
             /\ ~IsParameterOf(rd.symbol, last.f)
             /\ ~IsGlobalName(rd.symbol)
             /\ rd.symbol \notin DOMAIN locals
             /\ (rd.tw = rd.w \/ rd.tw = 1)) => rd.val = rd.tval

ComparisonPredicate(opname) ==
    CASE opname = "INT_EQUAL"      -> "icmp =="
      [] opname = "INT_NOTEQUAL"   -> "icmp !="
      [] opname = "INT_LESS"       -> "icmp u<"
      [] opname = "INT_LESSEQUAL"  -> "icmp u<="
      [] opname = "INT_SLESS"      -> "icmp s<"
      [] opname = "INT_SLESSEQUAL" -> "icmp s<="

\* C22: each of the six comparison operations emits a 1-bit comparison of
\* its two resolved operands, with the unsigned predicate for the operations
\* without S and the signed one for INT_S*, and stores the result to its
\* output varnode: the output temporary then holds the comparison result,
\* which a later read returns.
ComparisonStoresResult ==
    /\ ReadsReturnEntry
    /\ (last.opname \in ComparisonOps /\ last.err = "") =>
           LET code == ir_blocks[last.label]
               sym == FetchSymbol(last.op.output)
           IN  /\ Len(code) > last.n0
               /\ code[Len(code)].op = ComparisonPredicate(last.opname)
               /\ code[Len(code)].args = <<last.l, last.rr>>
               /\ vals[code[Len(code)].res].w = 1
               /\ sym \in DOMAIN temps
               /\ temps[sym] = code[Len(code)].res

\* C23: the width-reconciliation check of INT_OR is made on the operation's
\* own two resolved operands: the objects other than those two keep their
\* widths, the two end with the wider of their widths, and an INT_OR that is
\* the first two-operand operation of a function does not fail for lack of
\* operands of an earlier operation.
OrReconcilesOwnOperands ==
    /\ [](last.opname = "INT_OR" => last.err # "UnboundLocalError")
    /\ [][(nops' = nops + 1 /\ last'.opname = "INT_OR" /\ last'.err = "") =>
             /\ \A i \in 1..Len(vals) :
                    i \notin {last'.l, last'.rr} => vals'[i].w = vals[i].w
             /\ vals'[last'.l].w = vals'[last'.rr].w
             /\ vals'[last'.l].w = Widest({last'.wl, last'.wr})]_vars

\* C24: the temporaries table has function-local lifetime: each function
\* starts with an empty table, the table only ever holds names that an
\* operation of the function being lifted has written, and the first
\* operation of a function finds no entry for any name it reads, whatever the
\* functions lifted before it have written.
TemporariesAreFunctionLocal ==
    /\ (pc = "lift" /\ nops = 0) => temps = EmptyMap
    /\ (pc \in {"lift", "failed"} /\ nops = 1 /\ last.opname \notin {"", "end of block"}) =>
           /\ \A i \in 1..Len(last.reads) : last.reads[i].tval = 0
           /\ DOMAIN temps \subseteq {FetchSymbol(last.op.output)}
    /\ pc = "lift" => \A sym \in DOMAIN temps : temps[sym] \in 1..Len(vals)

\* The first function has written uniqueA with the result of a call of
\* sym.imp.rand, and the first operation of the second function has read
\* uniqueA.
TemporaryReadInNextFunction ==
    /\ Len(function_names) = 2
    /\ fn_i = 2
    /\ pc = "lift"
    /\ nops = 1
    /\ last.opname = "COPY"
    /\ last.f = function_names[2]
    /\ last.reads[1].symbol = sUniqueA
    /\ "sym.imp.rand" \in DOMAIN instrumentation

\* C25: width reconciliation changes only the operands as the operation
\* sees them: every function parameter and every value held in the
\* temporaries table keeps the width it was created with, and a read that
\* returns a parameter or an entry of the table itself returns a value of
\* that original width.
ReconciliationKeepsStoredWidths ==
    /\ \A i \in 1..Len(vals) : vals[i].kind = "arg" => vals[i].w = vals[i].w0
    /\ pc = "lift" => \A sym \in DOMAIN temps : vals[temps[sym]].w = vals[temps[sym]].w0
    /\ \A i \in 1..Len(last.reads) :
           LET rd == last.reads[i]
           IN  (vals[rd.val].kind = "arg" \/ rd.val = rd.tval) => rd.rw = vals[rd.val].w0

\* The widths the reads of the last operation asked for, the widths of the
\* numeric constants they made and the widths of the register slots are
\* those that Bits gives for the declared sizes.
WidthsAre(Bits(_)) ==
    /\ \A i \in 1..Len(last.reads) :
           LET rd == last.reads[i]
               v == vals[rd.val]
           IN  ~Contains(rd.symbol, <<"b","V","a","r">>) =>
                   /\ rd.w = Bits(rd.size)
                   /\ (v.kind = "const" /\ ~IsBooleanName(rd.symbol)) => v.w0 = Bits(rd.size)
    /\ pc = "lift" =>
           \A r \in RegisterSymbols :
               r \in DOMAIN locals /\ locals[r] = Bits(Widest(OccurrenceSizes(r)))

EightTimes(size) == 8 * size

EightTimesButOneByte(size) == IF size = 1 THEN 1 ELSE 8 * size

\* C26, as stated: for every input varnode that is no bVar, of declared size
\* s >= 1 bytes, fetch_input asks for 8*s bits and gives that width to a
\* numeric constant it makes, and the slot of a register whose largest
\* declared size is s bytes is 8*s bits wide; a 1-byte constant or register
\* is 8 bits wide.
DeclaredSizeTimesEight == WidthsAre(EightTimes)

\* C26, amended: the width is 8*s bits for s >= 2 and 1 bit for s = 1.
DeclaredSizeTimesEightButOneByte == WidthsAre(EightTimesButOneByte)

\* A numeric constant of 1 byte has been read in a function whose register
\* occurs with 1 byte only.
OneByteConstantRead ==
    /\ last.opname = "COPY"
    /\ last.err = ""
    /\ last.reads[1].symbol = sFive
    /\ last.reads[1].size = 1
    /\ vals[last.reads[1].val].kind = "const"
    /\ OccurrenceSizes(sReg10) = {1}

====
